---- MODULE Spec2Model ----
(***************************************************************************)
(* Keyframe animation sequencer (AnimationEngine), keyframe store          *)
(* (KeyframeManager) and their host: the animation-frame queue and the     *)
(* millisecond clock.  Times are integers (milliseconds); interpolation is *)
(* computed in exact rational arithmetic.                                  *)
(***************************************************************************)
EXTENDS Integers, Sequences, FiniteSets, TLC

VARIABLES
    keyframes,      \* AnimationEngine.keyframes (sorted by setKeyframes)
    currentTime,    \* AnimationEngine.currentTime
    isPlaying,      \* AnimationEngine.isPlaying
    loopMode,       \* AnimationEngine.loopMode
    animationId,    \* AnimationEngine.animationId, 0 for null
    startTime,      \* AnimationEngine.startTime
    totalDuration,  \* AnimationEngine.totalDuration
    direction,      \* AnimationEngine.direction, 1 or -1
    now,            \* the host clock, performance.now()
    pending,        \* handles of the callbacks queued by requestAnimationFrame
    out,            \* what the last operation did: its name and the onUpdate call it made
    frames,         \* the result of the last generateFrames call
    store,          \* the keyframe list of the application (App's keyframes state)
    exported,       \* the file written by the last exportKeyframes call
    imported,       \* the file read by the last importKeyframes call and its outcome
    settings,       \* App's settings state
    gridPoints,     \* App's gridPoints state
    lines,          \* App's lines state
    showExportDialog,  \* AnimationControls' showExportDialog state
    isExporting,    \* AnimationPanel's isExporting state
    exporting,      \* the exports whose encoding has not finished
    lookup,         \* the last getKeyframesForInterpolation call and its result
    generated,      \* the last generateGridPoints or generateArt call and its result
    randomLoop      \* the loop of the Random strategy: attempts made, edges, counters

engineVars == <<keyframes, currentTime, isPlaying, loopMode, animationId,
                startTime, totalDuration, direction>>
hostVars == <<now, pending>>
ioVars == <<store, exported, imported>>
appVars == <<settings, gridPoints, lines>>
uiVars == <<showExportDialog, isExporting, exporting>>
genVars == <<lookup, generated, randomLoop>>
vars == <<engineVars, hostVars, out, frames, ioVars, appVars, uiVars, genVars>>

----------------------------------------------------------------------------
(* Bounds of the model *)

MaxClock == 3
MaxPending == 2
MaxExports == 2

----------------------------------------------------------------------------
(* JavaScript values.  A primitive is a record [k, n, d, s]: a number is  *)
(* the exact rational n/d (d > 0, lowest terms), NaN, or +-Infinity (n is  *)
(* its sign); a string carries its text in s; undefined is what reading a  *)
(* property an object does not have gives.  An object is a record of       *)
(* values, an array a sequence.                                            *)

RECURSIVE Gcd(_, _)
Gcd(a, b) == IF b = 0 THEN a ELSE Gcd(b, a % b)

Abs(x) == IF x < 0 THEN -x ELSE x

Prim(kind, n, d, s) == [k |-> kind, n |-> n, d |-> d, s |-> s]

NaN == Prim("NaN", 0, 1, "")
Undefined == Prim("undefined", 0, 1, "")
Null == Prim("null", 0, 1, "")
Infinity(sign) == Prim("Infinity", sign, 1, "")
Str(s) == Prim("string", 0, 1, s)

Rat(n, d) ==
    LET g == Gcd(Abs(n), d)
    IN  Prim("number", n \div g, d \div g, "")

Num(i) == Prim("number", i, 1, "")

IsPrim(v) == "k" \in DOMAIN v
IsFinite(x) == x.k = "number"

\* obj.name for an object (a record) that may not have the property
Get(obj, name) == IF name \in DOMAIN obj THEN obj[name] ELSE Undefined

\* a - b, a * b, a + b, a / b on numbers; undefined converts to NaN
Sub(a, b) ==
    IF IsFinite(a) /\ IsFinite(b) THEN Rat(a.n * b.d - b.n * a.d, a.d * b.d) ELSE NaN

Add(a, b) ==
    IF IsFinite(a) /\ IsFinite(b) THEN Rat(a.n * b.d + b.n * a.d, a.d * b.d) ELSE NaN

Mul(a, b) ==
    IF IsFinite(a) /\ IsFinite(b) THEN Rat(a.n * b.n, a.d * b.d) ELSE NaN

Div(a, b) ==
    IF ~(IsFinite(a) /\ IsFinite(b)) THEN NaN
    ELSE IF b.n = 0 THEN (IF a.n = 0 THEN NaN ELSE Infinity(IF a.n > 0 THEN 1 ELSE -1))
    ELSE IF b.n > 0 THEN Rat(a.n * b.d, a.d * b.n)
    ELSE Rat(-(a.n * b.d), a.d * (-b.n))

\* a < b and a <= b: false when either side is NaN
Lt(a, b) ==
    /\ a.k \in {"number", "Infinity"}
    /\ b.k \in {"number", "Infinity"}
    /\ IF IsFinite(a) /\ IsFinite(b) THEN a.n * b.d < b.n * a.d
       ELSE IF IsFinite(a) THEN b.n > 0
       ELSE IF IsFinite(b) THEN a.n < 0
       ELSE a.n < b.n

Le(a, b) ==
    /\ a.k \in {"number", "Infinity"}
    /\ b.k \in {"number", "Infinity"}
    /\ ~Lt(b, a)

\* Math.min, Math.max: NaN if either argument is NaN
MathMin(a, b) ==
    IF a.k \notin {"number", "Infinity"} \/ b.k \notin {"number", "Infinity"} THEN NaN
    ELSE IF Lt(b, a) THEN b ELSE a

MathMax(a, b) ==
    IF a.k \notin {"number", "Infinity"} \/ b.k \notin {"number", "Infinity"} THEN NaN
    ELSE IF Lt(a, b) THEN b ELSE a

\* Math.round: floor(x + 0.5)
MathRound(x) ==
    IF IsFinite(x) THEN Num((2 * x.n + x.d) \div (2 * x.d))
    ELSE IF x.k = "Infinity" THEN x ELSE NaN

\* Math.ceil
MathCeil(x) ==
    IF IsFinite(x) THEN Num(-((-x.n) \div x.d)) ELSE x

----------------------------------------------------------------------------
(* Settings and keyframes *)

\* the properties of the Settings interface
SettingsFields ==
    {"gridStartRing", "gridEndRing", "symmetrySides", "chaos", "strategy",
     "connectionStartRing", "connectionEndRing", "tangentialStep", "radialTwist",
     "clusterCount", "maxConnections", "lineWidth", "dotSize", "curvature", "seed"}

MakeSettings(gs, ge, sides, chaos, strategy, cs, ce, step, twist, clusters, maxc, lw, dot, curv, seed) ==
    [gridStartRing |-> gs, gridEndRing |-> ge, symmetrySides |-> sides,
     chaos |-> chaos, strategy |-> Str(strategy),
     connectionStartRing |-> cs, connectionEndRing |-> ce,
     tangentialStep |-> step, radialTwist |-> twist, clusterCount |-> clusters,
     maxConnections |-> maxc, lineWidth |-> lw, dotSize |-> dot,
     curvature |-> curv, seed |-> seed]

\* the settings the application starts with, the seed fixed
InitialSettings ==
    MakeSettings(Num(0), Num(4), Num(6), Num(0), "Web", Num(0), Num(3), Num(1),
                 Num(0), Num(5), Num(2), Num(2), Num(4), Num(0), Num(7))

\* two more snapshots, different from the first in every property
SettingsB ==
    MakeSettings(Num(1), Num(6), Num(8), Rat(1, 2), "Swirl", Num(1), Num(5), Num(2),
                 Rat(-1, 2), Num(3), Num(4), Num(1), Num(2), Num(1), Num(12))

SettingsC ==
    MakeSettings(Num(2), Num(5), Num(3), Num(1), "Random", Num(2), Num(4), Num(0),
                 Num(1), Num(2), Num(1), Num(3), Num(0), Num(-1), Num(40))

\* KeyframeManager.createKeyframe: the settings are copied into the keyframe
createKeyframe(id, snapshot, name, timestamp, duration) ==
    [id |-> Str(id), name |-> Str(name), timestamp |-> timestamp,
     settings |-> snapshot, duration |-> Num(duration)]

\* the keyframes the model draws from, with every duration of durs; k2 and k3
\* share a timestamp
KeyframePool(durs) ==
    {createKeyframe("k1", InitialSettings, "Keyframe 1", Num(0), dur) : dur \in durs}
    \cup {createKeyframe("k2", SettingsB, "Keyframe 2", Rat(1, 2), dur) : dur \in durs}
    \cup {createKeyframe("k3", SettingsC, "Keyframe 3", Rat(1, 2), dur) : dur \in durs}

\* the sequences of keyframes of pool with different ids, the empty one included
KeyframeLists(pool) ==
    {ks \in UNION {[1..m -> pool] : m \in 0..Cardinality({k.id : k \in pool})} :
        \A i, j \in 1..Len(ks) : i # j => ks[i].id # ks[j].id}

\* the durations of the keyframes the sequencer is played with (milliseconds)
Durations == {0, 2}

\* the keyframe lists the sequencer is given: none, k1, k2 or both in either order
PlayedKeyframes ==
    KeyframeLists({k \in KeyframePool(Durations) : k.id # Str("k3")})

\* KeyframeManager.sortKeyframes: a stable sort, ascending by timestamp
RECURSIVE sortKeyframes(_)
sortKeyframes(ks) ==
    IF Len(ks) <= 1 THEN ks
    ELSE LET front == sortKeyframes(SubSeq(ks, 1, Len(ks) - 1))
             x == ks[Len(ks)]
             \* the comparator a.timestamp - b.timestamp keeps x behind equal ones
             idx == Cardinality({i \in 1..Len(front) :
                                    Le(front[i].timestamp, x.timestamp)})
         IN  SubSeq(front, 1, idx) \o <<x>> \o SubSeq(front, idx + 1, Len(front))

\* AnimationEngine.calculateTotalDuration
RECURSIVE calculateTotalDuration(_)
calculateTotalDuration(ks) ==
    IF ks = <<>> THEN 0
    ELSE calculateTotalDuration(SubSeq(ks, 1, Len(ks) - 1)) + ks[Len(ks)].duration.n

----------------------------------------------------------------------------
(* AnimationEngine: interpolation *)

\* what a call that throws gives instead of a value
Thrown(message) == [error |-> message]
Throws(v) == "error" \in DOMAIN v

\* AnimationEngine.easing.easeIn
easeIn(t) == Mul(t, t)

\* AnimationEngine.easing.easeInOutCubic
easeInOutCubic(t) ==
    IF Lt(t, Rat(1, 2)) THEN Mul(Mul(Mul(Num(4), t), t), t)
    ELSE Add(Mul(Mul(Sub(t, Num(1)), Sub(Mul(Num(2), t), Num(2))),
                 Sub(Mul(Num(2), t), Num(2))),
             Num(1))

\* AnimationEngine.lerp
lerp(start, end, progress) == Add(start, Mul(Sub(end, start), progress))

\* AnimationEngine.interpolateBetweenSettings: the object literal it returns
interpolateBetweenSettings(from, to, progress) ==
    [ringCount |-> MathRound(lerp(Get(from, "ringCount"), Get(to, "ringCount"), progress)),
     symmetrySides |->
        MathRound(lerp(Get(from, "symmetrySides"), Get(to, "symmetrySides"), progress)),
     chaos |-> lerp(Get(from, "chaos"), Get(to, "chaos"), progress),
     strategy |-> IF Lt(progress, Rat(1, 2)) THEN Get(from, "strategy")
                  ELSE Get(to, "strategy"),
     startRing |-> MathRound(lerp(Get(from, "startRing"), Get(to, "startRing"), progress)),
     endRing |-> MathRound(lerp(Get(from, "endRing"), Get(to, "endRing"), progress)),
     tangentialStep |->
        MathRound(lerp(Get(from, "tangentialStep"), Get(to, "tangentialStep"), progress)),
     radialTwist |-> lerp(Get(from, "radialTwist"), Get(to, "radialTwist"), progress),
     clusterCount |->
        MathRound(lerp(Get(from, "clusterCount"), Get(to, "clusterCount"), progress)),
     maxConnections |->
        MathRound(lerp(Get(from, "maxConnections"), Get(to, "maxConnections"), progress)),
     lineWidth |-> lerp(Get(from, "lineWidth"), Get(to, "lineWidth"), progress),
     dotSize |-> lerp(Get(from, "dotSize"), Get(to, "dotSize"), progress),
     curvature |-> lerp(Get(from, "curvature"), Get(to, "curvature"), progress),
     seed |-> MathRound(lerp(Get(from, "seed"), Get(to, "seed"), progress))]

\* the sum of the durations of the keyframes before index i
StartOfIndex(ks, i) == calculateTotalDuration(SubSeq(ks, 1, i - 1))

\* AnimationEngine.findInterpolationKeyframes: the indexes of the pair it returns
\* (the same index twice when it returns the same keyframe object twice)
findInterpolationKeyframes(ks, time) ==
    LET hits == {i \in 1..Len(ks) :
                    /\ Le(Num(StartOfIndex(ks, i)), time)
                    /\ Le(time, Num(StartOfIndex(ks, i) + ks[i].duration.n))}
    IN  IF hits = {} THEN <<Len(ks), Len(ks)>>
        ELSE LET i == CHOOSE h \in hits : \A g \in hits : h <= g
             IN  <<i, IF i + 1 <= Len(ks) THEN i + 1 ELSE i>>

\* AnimationEngine.getKeyframeStartTime: durations before the first keyframe with
\* the id of the given one
getKeyframeStartTime(ks, keyframe) ==
    LET same == {i \in 1..Len(ks) : ks[i].id = keyframe.id}
    IN  IF same = {} THEN calculateTotalDuration(ks)
        ELSE StartOfIndex(ks, CHOOSE i \in same : \A j \in same : i <= j)

\* AnimationEngine.interpolateSettings
interpolateSettings(ks, time) ==
    IF Len(ks) = 0 THEN Thrown("No keyframes available for interpolation")
    ELSE IF Len(ks) = 1 THEN ks[1].settings
    ELSE LET pair == findInterpolationKeyframes(ks, time)
             fromKeyframe == ks[pair[1]]
             toKeyframe == ks[pair[2]]
             keyframeStartTime == getKeyframeStartTime(ks, fromKeyframe)
             localTime == Sub(time, Num(keyframeStartTime))
             progress == MathMax(Num(0), MathMin(Num(1),
                                    Div(localTime, fromKeyframe.duration)))
         IN  IF pair[1] = pair[2] THEN fromKeyframe.settings
             ELSE interpolateBetweenSettings(fromKeyframe.settings, toKeyframe.settings,
                                             easeInOutCubic(progress))

----------------------------------------------------------------------------
(* AnimationEngine: playback *)

LoopModes == {"none", "loop", "pingpong"}

\* the times seekTo is called with: below 0, inside and beyond every total duration
SeekTimes == {-1, 1, 2, 5}

\* no value yet: no frames generated, no file written, no file read
None == [none |-> TRUE]

NoUpdate == [none |-> TRUE]
Updated(u) == "time" \in DOMAIN u

\* the record of the last operation: its name and the onUpdate call it made, if any
Did(op, update) == [op |-> op, update |-> update]

\* the record of a seekTo call: also the clock at the call
DidAt(op, update, at) == [op |-> op, update |-> update, at |-> at]

Min2(a, b) == IF a < b THEN a ELSE b
Max2(a, b) == IF a > b THEN a ELSE b

\* a clamp that forgets the lower end
ClampTimeAbove(time, total) == Min2(total, time)

\* Math.max(0, Math.min(totalDuration, time)) on millisecond times
ClampTime(time, total) == Max2(0, Min2(total, time))

\* a position change that tells the listener nothing
updateCurrentSettingsNever(ks, time) == NoUpdate

\* AnimationEngine.updateCurrentSettings: the onUpdate call made at position time,
\* recorded by the position it interpolates
updateCurrentSettings(ks, time) ==
    IF Len(ks) = 0 THEN NoUpdate ELSE [time |-> time]

\* the settings the recorded onUpdate call u passed, for the keyframes ks it read
UpdateSettings(ks, u) == interpolateSettings(ks, Num(u.time))

\* requestAnimationFrame: a handle that is not queued
FreeHandles(pend) == (1..MaxPending) \ pend
requestAnimationFrame(pend) == CHOOSE h \in FreeHandles(pend) : \A g \in FreeHandles(pend) : h <= g

\* an animate without its guard
animateRunsAlways(playing) == TRUE

\* the guard of animate: a callback that finds the engine not playing returns
animateRuns(playing) == playing

\* an end of playback that keeps the callbacks coming
continuesAtEndAlways(mode) == TRUE

\* shouldContinue after the forward end is reached: false under loop mode none
continuesAtEnd(mode) == mode # "none"

\* the position animate computes from the elapsed time
elapsedPosition(nowv, start, dir, total) == (nowv - start) * dir

\* AnimationEngine.pause on the fields it touches; e is a record of engine fields
pause(e, pend) ==
    [e |-> [e EXCEPT !.isPlaying = FALSE, !.animationId = 0],
     pending |-> IF e.animationId # 0 THEN pend \ {e.animationId} ELSE pend]

\* the boundary policy of animate for the position t it computed
boundary(t, e, mode, total, nowv) ==
    IF e.direction = 1 /\ t >= total THEN
        CASE mode = "none" ->
                [currentTime |-> total, direction |-> e.direction,
                 startTime |-> e.startTime, shouldContinue |-> continuesAtEnd(mode)]
          [] mode = "loop" ->
                [currentTime |-> 0, direction |-> e.direction,
                 startTime |-> nowv, shouldContinue |-> TRUE]
          [] mode = "pingpong" ->
                [currentTime |-> total, direction |-> -1,
                 startTime |-> nowv, shouldContinue |-> TRUE]
    ELSE IF e.direction = -1 /\ t <= 0 THEN
        IF mode = "pingpong"
        THEN [currentTime |-> 0, direction |-> 1, startTime |-> nowv,
              shouldContinue |-> TRUE]
        ELSE [currentTime |-> 0, direction |-> e.direction, startTime |-> e.startTime,
              shouldContinue |-> FALSE]
    ELSE [currentTime |-> t, direction |-> e.direction, startTime |-> e.startTime,
          shouldContinue |-> TRUE]

\* AnimationEngine.animate: the engine fields, the queue and the onUpdate call after it
animate(e, pend, ks, mode, total, nowv) ==
    IF ~animateRuns(e.isPlaying) THEN [e |-> e, pending |-> pend, update |-> NoUpdate]
    ELSE
        LET b == boundary(elapsedPosition(nowv, e.startTime, e.direction, total),
                          e, mode, total, nowv)
            position == ClampTime(b.currentTime, total)
            e1 == [e EXCEPT !.currentTime = position, !.direction = b.direction,
                            !.startTime = b.startTime]
            update == updateCurrentSettings(ks, position)
        IN  IF e1.isPlaying /\ b.shouldContinue
            THEN LET h == requestAnimationFrame(pend)
                 IN  [e |-> [e1 EXCEPT !.animationId = h],
                      pending |-> pend \cup {h}, update |-> update]
            ELSE IF ~b.shouldContinue
            THEN [e |-> pause(e1, pend).e, pending |-> pause(e1, pend).pending,
                  update |-> update]
            ELSE [e |-> e1, pending |-> pend, update |-> update]

\* the engine fields that playback changes, as a record
Engine ==
    [currentTime |-> currentTime, isPlaying |-> isPlaying, animationId |-> animationId,
     startTime |-> startTime, direction |-> direction]

\* nothing generated, looked up or exported yet
NothingGenerated ==
    /\ gridPoints = <<>>
    /\ lines = <<>>
    /\ showExportDialog = FALSE
    /\ isExporting = FALSE
    /\ exporting = <<>>
    /\ lookup = None
    /\ generated = None
    /\ randomLoop = None

\* the application as it starts: the initial settings, nothing generated
AppInit == settings = InitialSettings /\ NothingGenerated

\* the next state of the playback fields is the record e
SetEngine(e) ==
    /\ currentTime' = e.currentTime
    /\ isPlaying' = e.isPlaying
    /\ animationId' = e.animationId
    /\ startTime' = e.startTime
    /\ direction' = e.direction

Init ==
    /\ keyframes = <<>>
    /\ currentTime = 0
    /\ isPlaying = FALSE
    /\ loopMode = "none"
    /\ animationId = 0
    /\ startTime = 0
    /\ totalDuration = 0
    /\ direction = 1
    /\ now = 0
    /\ pending = {}
    /\ out = Did("new", NoUpdate)
    /\ frames = None
    /\ store = <<>>
    /\ exported = None
    /\ imported = None
    /\ AppInit

\* AnimationEngine.setKeyframes
SetKeyframes(kfs) ==
    /\ keyframes' = sortKeyframes(kfs)
    /\ totalDuration' = calculateTotalDuration(keyframes')
    /\ currentTime' = 0
    /\ out' = Did("setKeyframes", NoUpdate)
    /\ UNCHANGED <<isPlaying, loopMode, animationId, startTime, direction>>
    /\ UNCHANGED <<hostVars, frames, ioVars, appVars, uiVars, genVars>>

\* AnimationEngine.setLoopMode
SetLoopMode(mode) ==
    /\ loopMode' = mode
    /\ out' = Did("setLoopMode", NoUpdate)
    /\ UNCHANGED <<keyframes, currentTime, isPlaying, animationId, startTime,
                   totalDuration, direction>>
    /\ UNCHANGED <<hostVars, frames, ioVars, appVars, uiVars, genVars>>

\* the start time play computes for position t and direction dir
playStartTime(nowv, t, dir, total) ==
    IF dir = 1 THEN nowv - t ELSE nowv - (total - t)

\* AnimationEngine.play, with the animate call it ends with
Play ==
    /\ FreeHandles(pending) # {}
    /\ IF Len(keyframes) = 0
       THEN /\ out' = Did("play", NoUpdate)
            /\ UNCHANGED <<currentTime, isPlaying, animationId, startTime, direction,
                           pending>>
       ELSE LET restart == currentTime >= totalDuration /\ loopMode = "none"
                t == IF restart THEN 0 ELSE currentTime
                dir == IF restart THEN 1 ELSE direction
                e == [Engine EXCEPT !.isPlaying = TRUE, !.currentTime = t,
                                    !.direction = dir,
                                    !.startTime = playStartTime(now, t, dir,
                                                                totalDuration)]
                r == animate(e, pending, keyframes, loopMode, totalDuration, now)
            IN  /\ SetEngine(r.e)
                /\ pending' = r.pending
                /\ out' = Did("play", r.update)
    /\ UNCHANGED <<keyframes, loopMode, totalDuration, now, frames, ioVars, appVars, uiVars, genVars>>

\* AnimationEngine.pause
Pause ==
    /\ SetEngine(pause(Engine, pending).e)
    /\ pending' = pause(Engine, pending).pending
    /\ out' = Did("pause", NoUpdate)
    /\ UNCHANGED <<keyframes, loopMode, totalDuration, now, frames, ioVars, appVars, uiVars, genVars>>

\* AnimationEngine.stop
Stop ==
    LET p == pause(Engine, pending)
    IN  /\ SetEngine([p.e EXCEPT !.currentTime = 0, !.direction = 1])
        /\ pending' = p.pending
        /\ out' = Did("stop", updateCurrentSettings(keyframes, 0))
        /\ UNCHANGED <<keyframes, loopMode, totalDuration, now, frames, ioVars, appVars, uiVars, genVars>>

\* AnimationEngine.seekTo
SeekTo(time) ==
    /\ currentTime' = ClampTime(time, totalDuration)
    /\ out' = DidAt("seekTo", updateCurrentSettings(keyframes, currentTime'), now)
    /\ UNCHANGED <<keyframes, isPlaying, loopMode, animationId, startTime,
                   totalDuration, direction>>
    /\ UNCHANGED <<hostVars, frames, ioVars, appVars, uiVars, genVars>>

\* the host runs the queued callback h: one call of animate
Tick(h) ==
    /\ h \in pending
    /\ LET r == animate(Engine, pending \ {h}, keyframes, loopMode, totalDuration, now)
       IN  /\ SetEngine(r.e)
           /\ pending' = r.pending
           /\ out' = Did("tick", r.update)
    /\ UNCHANGED <<keyframes, loopMode, totalDuration, now, frames, ioVars, appVars, uiVars, genVars>>

\* the host clock moves on by a millisecond
Advance ==
    /\ now < MaxClock
    /\ now' = now + 1
    /\ UNCHANGED <<engineVars, pending, out, frames, ioVars, appVars, uiVars, genVars>>

DoSetKeyframes == \E kfs \in PlayedKeyframes : SetKeyframes(kfs)
DoSetLoopMode == \E mode \in LoopModes : SetLoopMode(mode)
DoSeekTo == \E time \in SeekTimes : SeekTo(time)
DoTick == \E h \in pending : Tick(h)

Next ==
    \/ DoSetKeyframes
    \/ DoSetLoopMode
    \/ Play
    \/ Pause
    \/ Stop
    \/ DoSeekTo
    \/ DoTick
    \/ Advance

Spec == Init /\ [][Next]_vars

----------------------------------------------------------------------------
(* AnimationEngine.generateFrames *)

\* the frame rates of an export, in frames per second
FrameRates == {1, 2, 30}

\* the durations of the keyframes an export is made of (milliseconds)
ExportDurations == {0, 500, 2000}

\* the keyframe lists an export is made of: any of k1, k2, k3 in any order
ExportKeyframes == KeyframeLists(KeyframePool(ExportDurations))

\* a frame count rounded down instead of up
frameCountFloor(total, fps) ==
    LET x == Mul(Div(Num(total), Num(1000)), Num(fps))
    IN  IF IsFinite(x) THEN Num(x.n \div x.d) ELSE x

\* frameCount = Math.ceil((this.totalDuration / 1000) * fps), the product taken
\* exactly (the rounding of binary floating point is not modelled)
frameCount(total, fps) == MathCeil(Mul(Div(Num(total), Num(1000)), Num(fps)))

\* AnimationEngine.generateFrames: the frames the promise resolves with, or the
\* error it rejects with
generateFrames(ks, total, fps) ==
    LET count == frameCount(total, fps)
        timeStep == Div(Num(total), count)
    IN  IF Len(ks) = 0 THEN interpolateSettings(ks, Mul(Num(0), timeStep))
        ELSE [resolved |-> [i \in 1..(count.n + 1) |->
                               interpolateSettings(ks, Mul(Num(i - 1), timeStep))]]

\* an export that moves the position of the engine to the end as it goes
GenerateFramesSeeking(fps) ==
    /\ frames' = [fps |-> fps, result |-> generateFrames(keyframes, totalDuration, fps)]
    /\ currentTime' = totalDuration
    /\ UNCHANGED <<keyframes, isPlaying, loopMode, animationId, startTime, totalDuration,
                   direction, hostVars, out, ioVars, appVars, uiVars, genVars>>

\* a call of generateFrames, as the export of the animation panel makes it
GenerateFrames(fps) ==
    /\ frames' = [fps |-> fps, result |-> generateFrames(keyframes, totalDuration, fps)]
    /\ UNCHANGED <<engineVars, hostVars, out, ioVars, appVars, uiVars, genVars>>

DoGenerateFrames == \E fps \in FrameRates : GenerateFrames(fps)

\* an engine that was given a keyframe list to export
ExportInit ==
    /\ keyframes \in {sortKeyframes(ks) : ks \in ExportKeyframes}
    /\ totalDuration = calculateTotalDuration(keyframes)
    /\ currentTime = 0
    /\ isPlaying = FALSE
    /\ loopMode = "none"
    /\ animationId = 0
    /\ startTime = 0
    /\ direction = 1
    /\ now = 0
    /\ pending = {}
    /\ out = Did("setKeyframes", NoUpdate)
    /\ frames = None
    /\ store = <<>>
    /\ exported = None
    /\ imported = None
    /\ AppInit

ExportSpec == ExportInit /\ [][DoGenerateFrames]_vars

----------------------------------------------------------------------------
(* KeyframeManager.exportKeyframes and importKeyframes *)

\* a text file holding the JSON document doc, and one whose text is not JSON
JsonFile(doc) == [json |-> doc]
NotJson == [garbage |-> TRUE]

\* a JavaScript array, where it has to be told from an object
Array(entries) == [array |-> entries]
IsArray(v) == "array" \in DOMAIN v

\* JSON.stringify of a primitive inside an array or object: NaN and the infinities
\* are written as null
stringifyPrimitive(v) == IF v.k \in {"NaN", "Infinity", "undefined"} THEN Null ELSE v

\* JSON.stringify of an object of primitives: undefined properties are left out
stringifyObject(obj) ==
    [f \in {g \in DOMAIN obj : obj[g] # Undefined} |-> stringifyPrimitive(obj[f])]

stringifyProperty(v) == IF IsPrim(v) THEN stringifyPrimitive(v) ELSE stringifyObject(v)

stringifyEntry(e) ==
    IF IsPrim(e) THEN stringifyPrimitive(e)
    ELSE [f \in {g \in DOMAIN e : e[g] # Undefined} |-> stringifyProperty(e[f])]

\* JSON.stringify(keyframes, null, 2) of an array of keyframes
JSONstringify(ks) == JsonFile(Array([i \in 1..Len(ks) |-> stringifyEntry(ks[i])]))

\* JSON.parse: the value of the document, or a SyntaxError
JSONparse(text) ==
    IF "json" \in DOMAIN text THEN text.json
    ELSE Thrown("Unexpected token")

\* the truthiness of a value
Truthy(v) ==
    IF ~IsPrim(v) THEN TRUE
    ELSE CASE v.k = "number" -> v.n # 0
           [] v.k = "string" -> v.s # ""
           [] v.k = "Infinity" -> TRUE
           [] OTHER -> FALSE

\* typeof v === 'number'
TypeofNumber(v) == IsPrim(v) /\ v.k \in {"number", "NaN", "Infinity"}

\* the test of the filter of importKeyframes, for a kf that is not null
isValidKeyframe(kf) ==
    /\ Truthy(Get(kf, "id"))
    /\ Truthy(Get(kf, "name"))
    /\ TypeofNumber(Get(kf, "timestamp"))
    /\ Truthy(Get(kf, "settings"))
    /\ TypeofNumber(Get(kf, "duration"))

\* KeyframeManager.exportKeyframes
exportKeyframes(ks) == JSONstringify(ks)

\* the list importKeyframes returns
Imported(ks) == [keyframes |-> ks]

\* KeyframeManager.importKeyframes: the list it returns or the error it throws;
\* reading kf.id of a null entry throws a TypeError inside the filter
importKeyframes(jsonString) ==
    LET imp == JSONparse(jsonString)
    IN  IF Throws(imp)
        THEN Thrown("Failed to import keyframes: Unexpected token")
        ELSE IF ~IsArray(imp)
        THEN Thrown("Failed to import keyframes: Invalid keyframes format")
        ELSE IF \E i \in 1..Len(imp.array) : imp.array[i] = Null
        THEN Thrown("Failed to import keyframes: Cannot read properties of null")
        ELSE Imported(SelectSeq(imp.array, isValidKeyframe))

\* a snapshot of the settings taken while the animation runs between two keyframes
SettingsSnapshot == interpolateBetweenSettings(InitialSettings, SettingsB, Rat(1, 2))

\* keyframes of the store: two as the application names them, one with an empty
\* name, one made from a snapshot
StoredPool ==
    { createKeyframe("k1", InitialSettings, "Keyframe 1", Num(0), 2000),
      createKeyframe("k2", SettingsB, "Keyframe 2", Num(1), 1000),
      createKeyframe("k3", SettingsC, "", Num(2), 500),
      createKeyframe("k4", SettingsSnapshot, "Keyframe 4", Num(3), 0) }

\* the stored lists: at most two keyframes of the pool
StoredLists ==
    {<<>>} \cup {<<a>> : a \in StoredPool}
           \cup {p \in StoredPool \X StoredPool : p[1] # p[2]}

\* entries of a file that was not written by exportKeyframes
FileEntries ==
    LET k1 == stringifyEntry(createKeyframe("k1", InitialSettings, "Keyframe 1", Num(0), 2000))
    IN  { k1,
          Null,
          Num(5),
          Str("keyframe"),
          [f \in DOMAIN k1 \ {"duration"} |-> k1[f]],
          [k1 EXCEPT !.timestamp = Str("0")],
          [k1 EXCEPT !.settings = Null] }

\* the files offered to the load dialog: arrays of at most two entries, documents
\* that are no array, and a text that is not JSON
Files ==
    {JsonFile(Array(<<>>))}
        \cup {JsonFile(Array(<<a>>)) : a \in FileEntries}
        \cup {JsonFile(Array(<<a, b>>)) : a \in FileEntries, b \in FileEntries}
        \cup {JsonFile(Null), JsonFile(Num(5)), NotJson,
              JsonFile(stringifyEntry(createKeyframe("k1", InitialSettings, "Keyframe 1", Num(0), 2000)))}

\* handleSaveKeyframes: the store is written to a file
SaveKeyframes ==
    /\ exported' = exportKeyframes(store)
    /\ UNCHANGED <<engineVars, hostVars, out, frames, store, imported, appVars, uiVars, genVars>>

\* handleLoadKeyframes, when the file was read: the store becomes the imported list,
\* or the error is shown and the store stays
LoadKeyframes(jsonData) ==
    LET importedKeyframes == importKeyframes(jsonData)
    IN  /\ imported' = [file |-> jsonData, result |-> importedKeyframes]
        /\ store' = IF Throws(importedKeyframes) THEN store
                    ELSE importedKeyframes.keyframes
        /\ UNCHANGED <<engineVars, hostVars, out, frames, exported, appVars, uiVars, genVars>>

\* the file written last is loaded
LoadSaved == exported # None /\ LoadKeyframes(exported)

LoadFile == \E jsonData \in Files : LoadKeyframes(jsonData)

\* the application with a list of keyframes in its store
JsonInit ==
    /\ keyframes = <<>>
    /\ totalDuration = 0
    /\ currentTime = 0
    /\ isPlaying = FALSE
    /\ loopMode = "none"
    /\ animationId = 0
    /\ startTime = 0
    /\ direction = 1
    /\ now = 0
    /\ pending = {}
    /\ out = Did("new", NoUpdate)
    /\ frames = None
    /\ store \in StoredLists
    /\ exported = None
    /\ imported = None
    /\ AppInit

JsonNext == SaveKeyframes \/ LoadSaved \/ LoadFile

JsonSpec == JsonInit /\ [][JsonNext]_vars

\* Uninterrupted playback: callers act only while the engine is not playing; the
\* host runs every queued callback in the end, and time passes
Uninterrupted ==
    \/ DoTick
    \/ Advance
    \/ ~isPlaying /\ DoSetKeyframes
    \/ ~isPlaying /\ DoSetLoopMode
    \/ ~isPlaying /\ Play
    \/ ~isPlaying /\ Pause
    \/ ~isPlaying /\ Stop
    \/ ~isPlaying /\ DoSeekTo

PlaybackSpec ==
    Init /\ [][Uninterrupted]_vars /\ WF_vars(DoTick) /\ WF_vars(Advance)

----------------------------------------------------------------------------
(* KeyframeManager.getKeyframesForInterpolation *)

\* a bracket test that leaves the timestamps themselves out
bracketsStrictly(a, timestamp, b) == Lt(a.timestamp, timestamp) /\ Lt(timestamp, b.timestamp)

\* timestamp >= sorted[i].timestamp && timestamp <= sorted[i + 1].timestamp
brackets(a, timestamp, b) == Le(a.timestamp, timestamp) /\ Le(timestamp, b.timestamp)

\* KeyframeManager.getKeyframesForInterpolation: the pair [from, to]
getKeyframesForInterpolation(ks, timestamp) ==
    IF Len(ks) = 0 THEN <<Null, Null>>
    ELSE IF Len(ks) = 1 THEN <<ks[1], ks[1]>>
    ELSE LET sorted == sortKeyframes(ks)
             last == sorted[Len(sorted)]
             found == {i \in 1..(Len(sorted) - 1) :
                          brackets(sorted[i], timestamp, sorted[i + 1])}
         IN  IF found # {}
             THEN LET i == CHOOSE f \in found : \A g \in found : f <= g
                  IN  <<sorted[i], sorted[i + 1]>>
             ELSE IF Le(timestamp, sorted[1].timestamp) THEN <<sorted[1], sorted[1]>>
             ELSE IF Le(last.timestamp, timestamp) THEN <<last, last>>
             ELSE <<Null, Null>>

\* the keyframes looked up: timestamps 0, 1/2 (twice) and 1, in any order
LookupPool ==
    { createKeyframe("k1", InitialSettings, "Keyframe 1", Num(0), 2000),
      createKeyframe("k2", SettingsB, "Keyframe 2", Rat(1, 2), 2000),
      createKeyframe("k3", SettingsC, "Keyframe 3", Rat(1, 2), 2000),
      createKeyframe("k4", SettingsB, "Keyframe 4", Num(1), 2000) }

\* the timestamps looked up: below, at, between and above those of the pool
LookupTimes == {Num(-1), Num(0), Rat(3, 10), Rat(1, 2), Rat(7, 10), Num(1), Num(2)}

\* a call of getKeyframesForInterpolation on the stored keyframes
Lookup(timestamp) ==
    /\ lookup' = [timestamp |-> timestamp,
                  result |-> getKeyframesForInterpolation(store, timestamp)]
    /\ UNCHANGED <<engineVars, hostVars, out, frames, ioVars, appVars, uiVars, generated, randomLoop>>

DoLookup == \E timestamp \in LookupTimes : Lookup(timestamp)

\* a keyframe collection, nothing looked up yet
LookupInit ==
    /\ keyframes = <<>>
    /\ totalDuration = 0
    /\ currentTime = 0
    /\ isPlaying = FALSE
    /\ loopMode = "none"
    /\ animationId = 0
    /\ startTime = 0
    /\ direction = 1
    /\ now = 0
    /\ pending = {}
    /\ out = Did("new", NoUpdate)
    /\ frames = None
    /\ store \in KeyframeLists(LookupPool)
    /\ exported = None
    /\ imported = None
    /\ AppInit

LookupSpec == LookupInit /\ [][DoLookup]_vars

----------------------------------------------------------------------------
(* mulberry32.  A 32-bit word is kept as its two 16-bit halves [hi, lo].    *)

Word(hi, lo) == [hi |-> hi, lo |-> lo]

\* 2^k for 0 <= k <= 16
Pow2(k) == <<1, 2, 4, 8, 16, 32, 64, 128, 256, 512, 1024, 2048, 4096, 8192, 16384,
             32768, 65536>>[k + 1]

\* the bitwise exclusive or and the bitwise or of two numbers below 2^w, w a power
\* of two: bit by bit, the upper and the lower half of the bits on their own
RECURSIVE XorBits(_, _, _)
XorBits(x, y, w) ==
    IF x = 0 THEN y
    ELSE IF y = 0 THEN x
    ELSE IF w = 1 THEN 0
    ELSE LET half == Pow2(w \div 2)
         IN  (XorBits(x \div half, y \div half, w \div 2) * half)
                 + XorBits(x % half, y % half, w \div 2)

RECURSIVE OrBits(_, _, _)
OrBits(x, y, w) ==
    IF x = 0 THEN y
    ELSE IF y = 0 THEN x
    ELSE IF w = 1 THEN 1
    ELSE LET half == Pow2(w \div 2)
         IN  (OrBits(x \div half, y \div half, w \div 2) * half)
                 + OrBits(x % half, y % half, w \div 2)

Xor16(x, y) == XorBits(x, y, 16)
Or16(x, y) == OrBits(x, y, 16)

\* a ^ b, a | c for a constant c below 2^16, and a >>> k for 0 < k < 16
XorWord(a, b) == Word(Xor16(a.hi, b.hi), Xor16(a.lo, b.lo))
OrWord(a, c) == Word(a.hi, Or16(a.lo, c))
ShiftRight(a, k) ==
    Word(a.hi \div Pow2(k), ((a.hi % Pow2(k)) * Pow2(16 - k)) + (a.lo \div Pow2(k)))

\* a + b modulo 2^32
AddWord(a, b) ==
    LET lo == a.lo + b.lo
    IN  Word((a.hi + b.hi + (lo \div 65536)) % 65536, lo % 65536)

\* x * y modulo 2^16 for x, y below 2^16, no product reaching 2^31
MulMod16(x, y) == (((x % 256) * y) + ((((x \div 256) * y) % 256) * 256)) % 65536

\* Math.imul(a, b): a * b modulo 2^32
Imul(a, b) ==
    LET a1 == a.lo \div 256
        a0 == a.lo % 256
        b1 == b.lo \div 256
        b0 == b.lo % 256
        low == (((a1 * b0) + (a0 * b1)) * 256) + (a0 * b0)
        high == ((a1 * b1) % 65536) + (low \div 65536)
                    + MulMod16(a.hi, b.lo) + MulMod16(a.lo, b.hi)
    IN  Word(high % 65536, low % 65536)

\* the generator state after n calls of a generator that started from state a
\* (a += 0x6D2B79F5 with each call, 0x6D2B79F5 = 27947 * 2^16 + 31221), n < 2^15
Stepped(a, n) ==
    LET lo == a.lo + (n * 31221)
    IN  Word((a.hi + (n * 27947) + (lo \div 65536)) % 65536, lo % 65536)

\* the 32-bit word a call returns (before the division by 4294967296) when the
\* state after its increment is a
Mix(a) ==
    LET t1 == Imul(XorWord(a, ShiftRight(a, 15)), OrWord(a, 1))
        t2 == XorWord(t1, AddWord(t1, Imul(XorWord(t1, ShiftRight(t1, 7)), OrWord(t1, 61))))
    IN  XorWord(t2, ShiftRight(t2, 14))

\* the value of the n-th call (n = 1, 2, ...) of a generator started from state a,
\* as the word u with rand() = u / 2^32
rand(a, n) == Mix(Stepped(a, n))

\* Math.floor(rand() * n) for the word u of rand() and 0 < n < 2^15
FloorTimes(u, n) == ((u.hi * n) + ((u.lo * n) \div 65536)) \div 65536

\* rand() > 0.5
AboveHalf(u) == u.hi > 32768 \/ (u.hi = 32768 /\ u.lo > 0)

\* a generator that goes on where the generator made before had come to
mulberry32Continued(seed, previous) == previous

\* the generator a call makes: mulberry32(seed), whatever generator was made before
mulberry32(seed, previous) == Word((seed \div 65536) % 65536, seed % 65536)

----------------------------------------------------------------------------
(* generateGridPoints.  Coordinates are kept in tenths of a pixel, rounded   *)
(* down, Math.cos and Math.sin to four decimals.                            *)

\* the canvas centre the application passes: canvasSize / 2
CanvasCenter == 500

\* 10000 * cos of k / 24 of a turn, 0 <= k <= 6
CosTable == <<10000, 9659, 8660, 7071, 5000, 2588, 0>>

\* 10000 * Math.cos(angle) and 10000 * Math.sin(angle) for an angle given as the
\* fraction n / d of a turn, taken to the 24th of a turn
Cos24(k) ==
    LET m == k % 24
    IN  IF m <= 6 THEN CosTable[m + 1]
        ELSE IF m <= 12 THEN -CosTable[12 - m + 1]
        ELSE IF m <= 18 THEN -CosTable[m - 12 + 1]
        ELSE CosTable[24 - m + 1]

MathCos(angle) == Cos24((angle.n * 24) \div angle.d)
MathSin(angle) == Cos24(((angle.n * 24) \div angle.d) + 18)

\* (rand() - 0.5) * chaos * 10 for the word u of rand(), in tenths of a pixel
chaosOffset(u, chaos) ==
    IF chaos.n = 0 THEN 0
    ELSE ((u.hi - 32768) * ((chaos.n * 100) \div chaos.d)) \div 65536

\* the number of points the loop makes for a ring
pointsInRing(ring, symmetrySides) ==
    IF ring = 0 THEN 1
    ELSE IF ring * symmetrySides > 0 THEN ring * symmetrySides ELSE 0

\* the value of idCounter when the loop that started at ring first reaches ring
RECURSIVE idCounterAt(_, _, _)
idCounterAt(first, ring, symmetrySides) ==
    IF ring <= first THEN 0
    ELSE idCounterAt(first, ring - 1, symmetrySides) + pointsInRing(ring - 1, symmetrySides)

\* the point the loop pushes as the i-th of a ring (i from 0), rand being a generator
\* in state gen of which every earlier point took two values
gridPoint(centerX, centerY, first, endRing, ring, i, symmetrySides, chaos, gen) ==
    LET id == idCounterAt(first, ring, symmetrySides) + i
        maxRadius == (IF centerX < centerY THEN centerX ELSE centerY) * 9
        radius == IF ring = 0 THEN 0
                  ELSE (ring * maxRadius) \div (IF endRing = 0 THEN 1 ELSE endRing)
        angle == IF ring = 0 THEN Num(0) ELSE Rat(i, pointsInRing(ring, symmetrySides))
        chaosX == chaosOffset(rand(gen, 2 * id + 1), chaos)
        chaosY == chaosOffset(rand(gen, 2 * id + 2), chaos)
    IN  [id |-> id,
         x |-> centerX * 10 + ((radius * MathCos(angle)) \div 10000) + chaosX,
         y |-> centerY * 10 + ((radius * MathSin(angle)) \div 10000) + chaosY,
         ring |-> ring,
         angle |-> angle]

\* the points the loop pushes for the rings first..last
RECURSIVE gridLoop(_, _, _, _, _, _, _, _, _)
gridLoop(centerX, centerY, first, last, ring, endRing, symmetrySides, chaos, gen) ==
    IF ring > last THEN <<>>
    ELSE [i \in 1..pointsInRing(ring, symmetrySides) |->
             gridPoint(centerX, centerY, first, endRing, ring, i - 1, symmetrySides,
                       chaos, gen)]
         \o gridLoop(centerX, centerY, first, last, ring + 1, endRing, symmetrySides,
                     chaos, gen)

\* the value of an identifier in a scope: a ReferenceError if nothing declares it
Resolve(name, scope) ==
    IF name \in DOMAIN scope THEN [value |-> scope[name]]
    ELSE Thrown("ReferenceError: not defined")

\* what a generating call gives: the value it returns or the error it throws, and the
\* state its generator is left in
Returned(value, gen) == [value |-> value, gen |-> gen]
ThrownWith(thrown, gen) == [error |-> thrown.error, gen |-> gen]

\* generateGridPoints; previous is the generator the call before left
generateGridPoints(centerX, centerY, startRing, endRing, symmetrySides, chaos, seed, previous) ==
    LET scope == [centerX |-> centerX, centerY |-> centerY, startRing |-> startRing,
                  endRing |-> endRing, symmetrySides |-> symmetrySides,
                  chaos |-> chaos, seed |-> seed]
        gen == mulberry32(seed, previous)
        first == Resolve("connectionStartRing", scope)
        last == Resolve("connectionEndRing", scope)
    IN  IF endRing < startRing \/ symmetrySides < 3 THEN Returned(<<>>, gen)
        ELSE IF Throws(first) THEN ThrownWith(first, gen)
        ELSE IF Throws(last) THEN ThrownWith(last, gen)
        ELSE LET points == gridLoop(centerX, centerY, first.value, last.value,
                                    first.value, endRing, symmetrySides, chaos, gen)
             IN  Returned(points, Stepped(gen, 2 * Len(points)))

\* the generator the last call left, the one of seed 0 before any call
lastGenerator == IF generated = None THEN Word(0, 0) ELSE generated.result.gen

\* the arguments generateGridPoints is called with
GridSides == {2, 3, 4}
GridRings == 0..3
GridChaos == {Num(0), Rat(1, 2)}
Seeds == {7, 12}

\* settings with the given grid and seed, else the initial ones
GridSettings(gs, ge, sides, chaos, seed) ==
    [InitialSettings EXCEPT !.gridStartRing = Num(gs), !.gridEndRing = Num(ge),
                            !.symmetrySides = Num(sides), !.chaos = chaos,
                            !.seed = Num(seed)]

\* generateGridPoints as the application calls it on its settings
gridPointsOf(s, previous) ==
    generateGridPoints(CanvasCenter, CanvasCenter, s.gridStartRing.n, s.gridEndRing.n,
                       s.symmetrySides.n, s.chaos, s.seed.n, previous)

\* a call of generateGridPoints
GenerateGridPoints ==
    /\ generated' = [call |-> "generateGridPoints", settings |-> settings,
                     result |-> gridPointsOf(settings, lastGenerator)]
    /\ UNCHANGED <<engineVars, hostVars, out, frames, ioVars, appVars, uiVars, lookup, randomLoop>>

\* generateGridPoints is given one of the settings
GridInit ==
    /\ keyframes = <<>>
    /\ totalDuration = 0
    /\ currentTime = 0
    /\ isPlaying = FALSE
    /\ loopMode = "none"
    /\ animationId = 0
    /\ startTime = 0
    /\ direction = 1
    /\ now = 0
    /\ pending = {}
    /\ out = Did("new", NoUpdate)
    /\ frames = None
    /\ store = <<>>
    /\ exported = None
    /\ imported = None
    /\ \E gs \in GridRings, ge \in GridRings, sides \in GridSides, chaos \in GridChaos,
          seed \in Seeds : settings = GridSettings(gs, ge, sides, chaos, seed)
    /\ NothingGenerated

GridSpec == GridInit /\ [][GenerateGridPoints]_vars

----------------------------------------------------------------------------
(* connectPoints and the strategies of generateArt.  A line is the pair of  *)
(* the ids of its two points.                                               *)

\* a % n as JavaScript computes it: the result has the sign of a
JsRem(a, n) == IF a >= 0 THEN a % n ELSE -((-a) % n)

\* the concatenation of a sequence of sequences
RECURSIVE Flat(_)
Flat(seqs) ==
    IF Len(seqs) = 0 THEN <<>>
    ELSE IF Len(seqs) = 1 THEN seqs[1]
    ELSE LET half == Len(seqs) \div 2
         IN  Flat(SubSeq(seqs, 1, half)) \o Flat(SubSeq(seqs, half + 1, Len(seqs)))

\* pointsByRing[ring] || []: the points of a ring in the order of the list
pointsByRing(points, ring) == SelectSeq(points, LAMBDA p : p.ring = ring)

\* the index the tangential edge of the point at index i goes to, all steps being 1
tangentialTargetNext(i, step, size) == (i + 1) % size

\* the index the tangential edge of the point at index i goes to
tangentialTarget(i, step, size) == (i + step) % size

\* the tangential lines connectPoints pushes for a ring
tangentialEdges(curr, step) ==
    IF step > 0 /\ Len(curr) > 1
    THEN [i \in 1..Len(curr) |->
             <<curr[i].id, curr[tangentialTarget(i - 1, step, Len(curr)) + 1].id>>]
    ELSE <<>>

\* targetIndex = Math.round(i * ratio + twist), ratio = nextSize / currSize
radialTarget(i, currSize, nextSize, twist) ==
    MathRound(Add(Mul(Num(i), Div(Num(nextSize), Num(currSize))), twist)).n

\* the line pushed for the point at index i of curr towards next[targetIndex %
\* next.length]: none if that element is undefined
radialEdge(curr, next, i, targetIndex) ==
    LET index == JsRem(targetIndex, Len(next))
    IN  IF index >= 0 THEN << <<curr[i + 1].id, next[index + 1].id>> >> ELSE <<>>

\* the radial lines pushed from a ring to the next one
radialEdges(curr, next, twist) ==
    IF Len(next) > 0 /\ Len(curr) > 0
    THEN Flat([i \in 1..Len(curr) |->
                  radialEdge(curr, next, i - 1,
                             radialTarget(i - 1, Len(curr), Len(next), twist))])
    ELSE <<>>

\* radialTwist * symmetrySides / 10
webTwist(s) == Div(Mul(s.radialTwist, s.symmetrySides), Num(10))

\* the lines of one round of the loop of connectPoints
connectRing(points, s, ring) ==
    tangentialEdges(pointsByRing(points, ring), s.tangentialStep.n)
        \o (IF ring < s.connectionEndRing.n
            THEN radialEdges(pointsByRing(points, ring), pointsByRing(points, ring + 1),
                             webTwist(s))
            ELSE <<>>)

connectPoints(points, s) ==
    Flat([k \in 1..(s.connectionEndRing.n - s.connectionStartRing.n + 1) |->
             connectRing(points, s, s.connectionStartRing.n + k - 1)])

generateWebStrategy(points, s, gen) == Returned(connectPoints(points, s), gen)

generateSpokesStrategy(points, s, gen) ==
    Returned(Flat([k \in 1..(s.connectionEndRing.n - s.connectionStartRing.n) |->
                      radialEdges(pointsByRing(points, s.connectionStartRing.n + k - 1),
                                  pointsByRing(points, s.connectionStartRing.n + k),
                                  webTwist(s))]),
             gen)

\* what a loop has built: the lines pushed and the number of values taken of rand
Built(built, n) == [lines |-> built, n |-> n]

\* whether (rand() - 0.5) * 2 + 1 >= k / d for the word u of rand(): u / 2^31 >= k / d
AtLeast(u, k, d) == ((u.hi * d) + ((u.lo * d) \div 65536)) >= 32768 * k

\* Math.round(base + (rand() - 0.5) * 2) for a number base and the word u of rand()
RoundWithDraw(base, u) ==
    LET c == Sub(base, Rat(1, 2))
        whole == c.n \div c.d
        rest == c.n % c.d
    IN  whole + (IF AtLeast(u, c.d - rest, c.d) THEN 1 ELSE 0)
              + (IF AtLeast(u, (2 * c.d) - rest, c.d) THEN 1 ELSE 0)

\* the lines the tangential loop of the Swirl strategy pushes for a ring, n values
\* having been taken of rand before it: round i takes one value, the (n + i + 1)-th
swirlTangential(curr, step, gen, n) ==
    LET step1 == IF step > 1 THEN step ELSE 1
        step2 == IF step + 1 > 1 THEN step + 1 ELSE 1
    IN  Flat([k \in 1..Len(curr) |->
                 LET i == k - 1
                     p1 == curr[i + 1]
                     p2 == curr[((i + step1) % Len(curr)) + 1]
                     p3 == curr[((i + step2) % Len(curr)) + 1]
                 IN  << <<p1.id, p2.id>> >>
                         \o (IF AboveHalf(rand(gen, n + i + 1))
                             THEN << <<p1.id, p3.id>> >> ELSE <<>>)])

\* the lines the radial loop of the Swirl strategy pushes for a ring, n values having
\* been taken of rand before it: round i takes one value, the (n + i + 1)-th
swirlRadial(curr, next, s, gen, n) ==
    Flat([k \in 1..Len(curr) |->
             LET i == k - 1
                 base == Add(Mul(Num(i), Div(Num(Len(next)), Num(Len(curr)))),
                             Div(Mul(s.radialTwist, s.symmetrySides), Num(5)))
                 targetIndex == RoundWithDraw(base, rand(gen, n + i + 1))
             IN  radialEdge(curr, next, i, targetIndex)])

\* the number of values one round of the ring loop of the Swirl strategy takes of rand
swirlDraws(points, s, ring) ==
    LET curr == pointsByRing(points, ring)
        next == pointsByRing(points, ring + 1)
    IN  (IF Len(curr) > 1 THEN Len(curr) ELSE 0)
            + (IF ring < s.connectionEndRing.n /\ Len(next) > 0 /\ Len(curr) > 0
               THEN Len(curr) ELSE 0)

\* the number of values the ring loop has taken of rand when it comes to a ring
RECURSIVE swirlDrawsBefore(_, _, _)
swirlDrawsBefore(points, s, ring) ==
    IF ring <= s.connectionStartRing.n THEN 0
    ELSE swirlDrawsBefore(points, s, ring - 1) + swirlDraws(points, s, ring - 1)

\* the lines one round of the ring loop of the Swirl strategy pushes
swirlRing(points, s, gen, ring) ==
    LET curr == pointsByRing(points, ring)
        next == pointsByRing(points, ring + 1)
        n == swirlDrawsBefore(points, s, ring)
    IN  (IF Len(curr) > 1 THEN swirlTangential(curr, s.tangentialStep.n, gen, n)
         ELSE <<>>)
        \o (IF ring < s.connectionEndRing.n /\ Len(next) > 0 /\ Len(curr) > 0
            THEN swirlRadial(curr, next, s, gen,
                             n + (IF Len(curr) > 1 THEN Len(curr) ELSE 0))
            ELSE <<>>)

\* the ring loop of the Swirl strategy: its lines and the values it took of rand
swirlLoop(points, s, gen) ==
    Built(Flat([k \in 1..(s.connectionEndRing.n - s.connectionStartRing.n + 1) |->
                   swirlRing(points, s, gen, s.connectionStartRing.n + k - 1)]),
          swirlDrawsBefore(points, s, s.connectionEndRing.n + 1))

generateSwirlStrategy(points, s, gen) ==
    LET built == swirlLoop(points, s, gen)
    IN  Returned(built.lines, Stepped(gen, built.n))

\* connections[id] || 0
countOf(connections, id) == IF id \in DOMAIN connections THEN connections[id] ELSE 0

\* connections after connections[id] = (connections[id] || 0) + by
counted(connections, id, by) ==
    [k \in DOMAIN connections \cup {id} |->
        IF k = id THEN countOf(connections, id) + by ELSE connections[k]]

\* the condition of the Random strategy without the test of the second point
acceptsUpToFirst(p1, p2, connections, maxConnections) ==
    /\ p1.id # p2.id
    /\ countOf(connections, p1.id) < maxConnections

\* whether the Random strategy makes the pair a line
accepts(p1, p2, connections, maxConnections) ==
    /\ p1.id # p2.id
    /\ countOf(connections, p1.id) < maxConnections
    /\ countOf(connections, p2.id) < maxConnections

\* the Random strategy before its first attempt
RandomStart == [lines |-> <<>>, connections |-> <<>>, attempts |-> 0]

\* one round of the loop of the Random strategy, the two draws having given the
\* indices i1 and i2 of activePoints
randomAttempt(activePoints, maxConnections, st, i1, i2) ==
    LET p1 == activePoints[i1 + 1]
        p2 == activePoints[i2 + 1]
        touched == counted(counted(st.connections, p1.id, 0), p2.id, 0)
    IN  IF accepts(p1, p2, touched, maxConnections)
        THEN [lines |-> Append(st.lines, <<p1.id, p2.id>>),
              connections |-> counted(counted(touched, p1.id, 1), p2.id, 1),
              attempts |-> st.attempts + 1]
        ELSE [lines |-> st.lines, connections |-> touched, attempts |-> st.attempts + 1]

\* the rounds of the loop of the Random strategy from the state st on as long as
\* attempts < until, the draws taken of gen: one round, or the earlier half of the
\* rounds and then the later half
RECURSIVE randomLoopUntil(_, _, _, _, _)
randomLoopUntil(activePoints, maxConnections, gen, st, until) ==
    IF st.attempts >= until THEN st
    ELSE IF st.attempts + 1 = until
    THEN randomAttempt(activePoints, maxConnections, st,
             FloorTimes(rand(gen, (2 * st.attempts) + 1), Len(activePoints)),
             FloorTimes(rand(gen, (2 * st.attempts) + 2), Len(activePoints)))
    ELSE randomLoopUntil(activePoints, maxConnections, gen,
             randomLoopUntil(activePoints, maxConnections, gen, st,
                             st.attempts + ((until - st.attempts) \div 2)),
             until)

\* the loop of the Random strategy from the state st on
randomLoopFrom(activePoints, maxConnections, gen, st) ==
    randomLoopUntil(activePoints, maxConnections, gen, st, Len(activePoints) * 2)

generateRandomStrategy(activePoints, s, gen) ==
    LET st == randomLoopFrom(activePoints, s.maxConnections.n, gen, RandomStart)
    IN  Returned(st.lines, Stepped(gen, 2 * st.attempts))

\* the square of the distance of two points
distanceSquared(p, center) ==
    ((p.x - center.x) * (p.x - center.x)) + ((p.y - center.y) * (p.y - center.y))

\* closestCenter after the centers up to the k-th were tried; best is the index of
\* the closest one so far, 0 while minDistance is Infinity
RECURSIVE closestCenter(_, _, _, _)
closestCenter(p, centers, k, best) ==
    IF k > Len(centers) THEN (IF best = 0 THEN centers[1] ELSE centers[best])
    ELSE IF p.id = centers[k].id THEN closestCenter(p, centers, k + 1, best)
    ELSE IF best = 0 \/ distanceSquared(p, centers[k]) < distanceSquared(p, centers[best])
         THEN closestCenter(p, centers, k + 1, k)
    ELSE closestCenter(p, centers, k + 1, best)

\* the centers the Clusters strategy draws
clusterCenters(activePoints, clusterCount, gen) ==
    [k \in 1..clusterCount |->
        activePoints[FloorTimes(rand(gen, k), Len(activePoints)) + 1]]

generateClustersStrategy(activePoints, s, gen) ==
    LET centers == clusterCenters(activePoints, s.clusterCount.n, gen)
    IN  Returned([i \in 1..Len(activePoints) |->
                     <<activePoints[i].id, closestCenter(activePoints[i], centers, 1, 0).id>>],
                 Stepped(gen, s.clusterCount.n))

\* activePoints: the points of the rings of the connection range
activePointsOf(points, s) ==
    SelectSeq(points, LAMBDA p : p.ring >= s.connectionStartRing.n
                                    /\ p.ring <= s.connectionEndRing.n)

\* generateArt; previous is the generator the call before left
generateArt(points, s, previous) ==
    LET gen == mulberry32(s.seed.n, previous)
        activePoints == activePointsOf(points, s)
    IN  IF Len(activePoints) = 0 THEN Returned(<<>>, gen)
        ELSE IF s.strategy = Str("Web") THEN generateWebStrategy(points, s, gen)
        ELSE IF s.strategy = Str("Spokes") THEN generateSpokesStrategy(points, s, gen)
        ELSE IF s.strategy = Str("Swirl") THEN generateSwirlStrategy(points, s, gen)
        ELSE IF s.strategy = Str("Random") THEN generateRandomStrategy(activePoints, s, gen)
        ELSE IF s.strategy = Str("Clusters") THEN generateClustersStrategy(activePoints, s, gen)
        ELSE Returned(<<>>, gen)

\* the point lists and the settings generateArt is called with
ArtSides == {3, 6}
ArtRings == 0..2
Strategies == {"Web", "Spokes", "Swirl", "Random", "Clusters"}
TangentialSteps == {0, 2}
RadialTwists == {Num(-1), Num(0), Rat(1, 2)}
ClusterCounts == {1, 2}
ConnectionCaps == {1, 2}

\* settings of a grid of the rings 0..2 with the given connecting properties
ArtSettings(sides, strategy, cs, ce, step, twist, clusters, maxc, seed) ==
    [InitialSettings EXCEPT !.gridEndRing = Num(2), !.symmetrySides = Num(sides),
                            !.strategy = Str(strategy),
                            !.connectionStartRing = Num(cs), !.connectionEndRing = Num(ce),
                            !.tangentialStep = Num(step), !.radialTwist = twist,
                            !.clusterCount = Num(clusters), !.maxConnections = Num(maxc),
                            !.seed = Num(seed)]

\* the point list of the rings gridStartRing..gridEndRing of the settings: one point of
\* ring 0 and ring * symmetrySides of every other ring, ids in order of the list
ringPoints(s) ==
    gridLoop(CanvasCenter, CanvasCenter, s.gridStartRing.n, s.gridEndRing.n,
             s.gridStartRing.n, s.gridEndRing.n, s.symmetrySides.n, s.chaos,
             mulberry32(s.seed.n, Word(0, 0)))

\* a call of generateArt on the point list and the settings
GenerateArt ==
    /\ generated' = [call |-> "generateArt", settings |-> settings,
                     result |-> generateArt(gridPoints, settings, lastGenerator)]
    /\ UNCHANGED <<engineVars, hostVars, out, frames, ioVars, appVars, uiVars, lookup, randomLoop>>

ArtInit ==
    /\ keyframes = <<>>
    /\ totalDuration = 0
    /\ currentTime = 0
    /\ isPlaying = FALSE
    /\ loopMode = "none"
    /\ animationId = 0
    /\ startTime = 0
    /\ direction = 1
    /\ now = 0
    /\ pending = {}
    /\ out = Did("new", NoUpdate)
    /\ frames = None
    /\ store = <<>>
    /\ exported = None
    /\ imported = None
    /\ \E sides \in ArtSides, strategy \in Strategies, cs \in ArtRings, ce \in ArtRings,
          step \in TangentialSteps, twist \in RadialTwists, clusters \in ClusterCounts,
          maxc \in ConnectionCaps, seed \in Seeds :
          settings = ArtSettings(sides, strategy, cs, ce, step, twist, clusters, maxc, seed)
    /\ gridPoints = ringPoints(settings)
    /\ lines = <<>>
    /\ showExportDialog = FALSE
    /\ isExporting = FALSE
    /\ exporting = <<>>
    /\ lookup = None
    /\ generated = None
    /\ randomLoop = None

ArtNext == GenerateArt \/ GenerateGridPoints

ArtSpec == ArtInit /\ [][ArtNext]_vars


----------------------------------------------------------------------------
(* The loop of the Random strategy, one round at a time, the two draws of a  *)
(* round being any two indices of activePoints.                             *)

\* the connection ranges the loop is run on: rings 0..1 of a 3-sided grid
RandomRings == 0..1

\* one round of the loop: i < activePoints.length * 2
RandomAttempt ==
    LET activePoints == activePointsOf(gridPoints, settings)
    IN  /\ randomLoop.attempts < Len(activePoints) * 2
        /\ \E i1 \in 0..(Len(activePoints) - 1), i2 \in 0..(Len(activePoints) - 1) :
               randomLoop' = randomAttempt(activePoints, settings.maxConnections.n,
                                           randomLoop, i1, i2)
        /\ UNCHANGED <<engineVars, hostVars, out, frames, ioVars, appVars, uiVars, lookup, generated>>

RandomInit ==
    /\ keyframes = <<>>
    /\ totalDuration = 0
    /\ currentTime = 0
    /\ isPlaying = FALSE
    /\ loopMode = "none"
    /\ animationId = 0
    /\ startTime = 0
    /\ direction = 1
    /\ now = 0
    /\ pending = {}
    /\ out = Did("new", NoUpdate)
    /\ frames = None
    /\ store = <<>>
    /\ exported = None
    /\ imported = None
    /\ \E cs \in RandomRings, ce \in RandomRings, maxc \in ConnectionCaps :
          settings = ArtSettings(3, "Random", cs, ce, 1, Num(0), 1, maxc, 7)
    /\ gridPoints = ringPoints(settings)
    /\ lines = <<>>
    /\ showExportDialog = FALSE
    /\ isExporting = FALSE
    /\ exporting = <<>>
    /\ lookup = None
    /\ generated = None
    /\ randomLoop = RandomStart

RandomSpec == RandomInit /\ [][RandomAttempt]_vars

----------------------------------------------------------------------------
(* The export dialog of AnimationControls and the export of AnimationPanel. *)
(* exporting holds the exports whose encoding has started and not ended.    *)

\* the "Export GIF" button: disabled={totalDuration === 0 || isExporting}
OpenDialog ==
    /\ ~(totalDuration = 0 \/ isExporting)
    /\ showExportDialog' = TRUE
    /\ UNCHANGED <<engineVars, hostVars, out, frames, ioVars, appVars, isExporting, exporting, genVars>>

\* the Cancel button of the dialog
CancelDialog ==
    /\ showExportDialog
    /\ showExportDialog' = FALSE
    /\ UNCHANGED <<engineVars, hostVars, out, frames, ioVars, appVars, isExporting, exporting, genVars>>

\* the Export button of the dialog: AnimationControls.handleExportGif calls
\* AnimationPanel.handleExportGif, which runs up to the encoding of the frames
ClickExport(fps) ==
    /\ showExportDialog
    /\ Len(exporting) < MaxExports
    /\ IF Len(keyframes) = 0
       THEN UNCHANGED <<frames, isExporting, exporting>>
       ELSE LET result == generateFrames(keyframes, totalDuration, fps)
            IN  /\ frames' = [fps |-> fps, result |-> result]
                /\ IF Throws(result)
                   THEN isExporting' = FALSE /\ UNCHANGED exporting
                   ELSE /\ isExporting' = TRUE
                        /\ exporting' = Append(exporting, [fps |-> fps])
    /\ UNCHANGED <<engineVars, hostVars, out, ioVars, appVars, showExportDialog, genVars>>

DoClickExport == \E fps \in FrameRates : ClickExport(fps)

\* the encoding of the i-th running export ends, with the GIF or with an error: the
\* finally block runs, and after a GIF the dialog is closed
FinishExport(i, finished) ==
    /\ i \in 1..Len(exporting)
    /\ exporting' = [k \in 1..(Len(exporting) - 1) |->
                        IF k < i THEN exporting[k] ELSE exporting[k + 1]]
    /\ isExporting' = FALSE
    /\ showExportDialog' = IF finished THEN FALSE ELSE showExportDialog
    /\ UNCHANGED <<engineVars, hostVars, out, frames, ioVars, appVars, genVars>>

DoFinishExport == \E i \in 1..MaxExports, finished \in BOOLEAN : FinishExport(i, finished)

ExportUiNext == OpenDialog \/ CancelDialog \/ DoClickExport \/ DoFinishExport

ExportUiSpec == ExportInit /\ [][ExportUiNext]_vars

----------------------------------------------------------------------------
(* The sequencer with its export: the operations of the engine on no        *)
(* keyframe or one, and generateFrames called between them.                 *)

\* no keyframe, or one keyframe of two milliseconds
FewKeyframes == {<<>>, <<createKeyframe("k1", InitialSettings, "Keyframe 1", Num(0), 2)>>}

DoSetFewKeyframes == \E kfs \in FewKeyframes : SetKeyframes(kfs)

SequencerNext ==
    \/ DoSetFewKeyframes
    \/ DoSetLoopMode
    \/ Play
    \/ Pause
    \/ Stop
    \/ DoSeekTo
    \/ DoTick
    \/ Advance
    \/ DoGenerateFrames

SequencerSpec == Init /\ [][SequencerNext]_vars

----------------------------------------------------------------------------
(* The settings of the App: handleSettingsChange and the effects that run   *)
(* after it.  An effect that throws is abandoned where it threw.            *)

\* handleSettingsChange({[field]: value}) on the settings prev
handleSettingsChange(prev, field, value) ==
    LET updated == [prev EXCEPT ![field] = value]
        grid == IF field = "gridStartRing" /\ Lt(updated.gridEndRing, value)
                THEN [updated EXCEPT !.gridEndRing = value]
                ELSE IF field = "gridEndRing" /\ Lt(value, updated.gridStartRing)
                THEN [updated EXCEPT !.gridStartRing = value]
                ELSE updated
    IN  IF field = "connectionStartRing" /\ Lt(grid.connectionEndRing, value)
        THEN [grid EXCEPT !.connectionEndRing = value]
        ELSE IF field = "connectionEndRing" /\ Lt(value, grid.connectionStartRing)
        THEN [grid EXCEPT !.connectionStartRing = value]
        ELSE grid

\* the dependencies of the grid effect
GridDependencies == {"gridStartRing", "gridEndRing", "symmetrySides", "chaos", "seed"}

\* the settings after the clamp of the grid effect
clampConnectionRings(s) ==
    IF \/ Lt(s.connectionStartRing, s.gridStartRing)
       \/ Lt(s.gridEndRing, s.connectionStartRing)
       \/ Lt(s.connectionEndRing, s.gridStartRing)
       \/ Lt(s.gridEndRing, s.connectionEndRing)
    THEN [s EXCEPT !.connectionStartRing = s.gridStartRing,
                   !.connectionEndRing = s.gridEndRing]
    ELSE s

\* the art effect on the points and the settings of a render
artEffect(points, s, shown, previous) ==
    IF Len(points) > 0 THEN generateArt(points, s, previous).value ELSE shown

\* a control calls handleSettingsChange; the grid effect runs if one of its dependencies
\* changed, then the art effect
ChangeSetting(field, value) ==
    LET updated == handleSettingsChange(settings, field, value)
        runs == \E f \in GridDependencies : updated[f] # settings[f]
        result == gridPointsOf(updated, lastGenerator)
    IN  /\ IF ~runs
           THEN /\ settings' = updated
                /\ lines' = artEffect(gridPoints, updated, lines, lastGenerator)
                /\ UNCHANGED <<gridPoints, generated>>
           ELSE /\ generated' = [call |-> "generateGridPoints", settings |-> updated,
                                 result |-> result]
                /\ IF Throws(result)
                   THEN /\ settings' = updated
                        /\ UNCHANGED <<gridPoints, lines>>
                   ELSE /\ settings' = clampConnectionRings(updated)
                        /\ gridPoints' = result.value
                        /\ lines' = artEffect(result.value, clampConnectionRings(updated),
                                              lines, result.gen)
        /\ UNCHANGED <<engineVars, hostVars, out, frames, ioVars, uiVars, lookup, randomLoop>>

\* the values of the controls: a ring slider of the grid, one of the connections (from
\* the grid start ring to the grid end ring), the sides, the chaos, the step
ControlRings == {0, 2, 4}

ChangeGridRing ==
    \E field \in {"gridStartRing", "gridEndRing"}, ring \in ControlRings :
        ChangeSetting(field, Num(ring))

ChangeConnectionRing ==
    \E field \in {"connectionStartRing", "connectionEndRing"}, ring \in ControlRings :
        /\ settings.gridStartRing.n <= ring
        /\ ring <= settings.gridEndRing.n
        /\ ChangeSetting(field, Num(ring))

ChangeOther ==
    \/ \E sides \in GridSides \ {2} : ChangeSetting("symmetrySides", Num(sides))
    \/ \E chaos \in GridChaos : ChangeSetting("chaos", chaos)
    \/ \E step \in TangentialSteps : ChangeSetting("tangentialStep", Num(step))

SettingsNext == ChangeGridRing \/ ChangeConnectionRing \/ ChangeOther

\* the App after its first render
SettingsSpec == Init /\ [][SettingsNext]_vars

----------------------------------------------------------------------------
(* KeyframeManager: the keyframe collection of the animation panel *)

\* the most keyframes the collection is given
MaxStored == 3

\* the ids createKeyframe gives out: each one once
StoreIds == {"k1", "k2", "k3"}

\* the normalized timestamps of an added or dragged keyframe
StoreTimestamps == {Num(0), Rat(1, 2), Num(1)}

\* the names the timeline gives a keyframe: `Keyframe ${keyframes.length + 1}`, or
\* the one typed
KeyframeName(n) == <<"Keyframe 1", "Keyframe 2", "Keyframe 3">>[n]
TypedNames == {"Renamed"}

\* KeyframeManager.insertKeyframe: append, then sort
insertKeyframe(ks, newKeyframe) == sortKeyframes(ks \o <<newKeyframe>>)

\* KeyframeManager.removeKeyframe
removeKeyframe(ks, keyframeId) ==
    LET keeps(kf) == kf.id # keyframeId
    IN  SelectSeq(ks, keeps)

\* KeyframeManager.updateKeyframe: { ...kf, ...updates } for the keyframe of the id
updateKeyframe(ks, keyframeId, updates) ==
    [i \in 1..Len(ks) |->
        IF ks[i].id = keyframeId
        THEN [f \in DOMAIN ks[i] |-> IF f \in DOMAIN updates THEN updates[f] ELSE ks[i][f]]
        ELSE ks[i]]

\* KeyframeManager.normalizeTimestamps
normalizeTimestamps(ks) ==
    IF Len(ks) = 0 THEN <<>>
    ELSE IF Len(ks) = 1 THEN <<[ks[1] EXCEPT !.timestamp = Num(0)]>>
    ELSE LET sorted == sortKeyframes(ks)
         IN  [i \in 1..Len(sorted) |->
                [sorted[i] EXCEPT !.timestamp = Rat(i - 1, Len(sorted) - 1)]]

\* handleAddKeyframe: a keyframe of the current settings, with a new id
AddKeyframe(id, timestamp) ==
    /\ Len(store) < MaxStored
    /\ \A i \in 1..Len(store) : store[i].id # Str(id)
    /\ store' = insertKeyframe(store,
                    createKeyframe(id, settings, KeyframeName(Len(store) + 1), timestamp, 2000))
    /\ UNCHANGED <<engineVars, hostVars, out, frames, exported, imported, appVars, uiVars, genVars>>

\* handleKeyframeDelete
DeleteKeyframe(id) ==
    /\ \E i \in 1..Len(store) : store[i].id = Str(id)
    /\ store' = removeKeyframe(store, Str(id))
    /\ UNCHANGED <<engineVars, hostVars, out, frames, exported, imported, appVars, uiVars, genVars>>

\* handleKeyframeUpdate, as Timeline.handleMouseMove calls it while a keyframe is dragged
DragKeyframe(id, timestamp) ==
    /\ \E i \in 1..Len(store) : store[i].id = Str(id)
    /\ store' = updateKeyframe(store, Str(id), [timestamp |-> timestamp])
    /\ UNCHANGED <<engineVars, hostVars, out, frames, exported, imported, appVars, uiVars, genVars>>

\* handleKeyframeUpdate, as the timeline calls it when a keyframe is renamed
RenameKeyframe(id, name) ==
    /\ \E i \in 1..Len(store) : store[i].id = Str(id)
    /\ store' = updateKeyframe(store, Str(id), [name |-> Str(name)])
    /\ UNCHANGED <<engineVars, hostVars, out, frames, exported, imported, appVars, uiVars, genVars>>

\* the collection replaced by its normalized copy
NormalizeTimestamps ==
    /\ store' = normalizeTimestamps(store)
    /\ UNCHANGED <<engineVars, hostVars, out, frames, exported, imported, appVars, uiVars, genVars>>

DoAddKeyframe == \E id \in StoreIds : \E timestamp \in StoreTimestamps : AddKeyframe(id, timestamp)
DoDeleteKeyframe == \E id \in StoreIds : DeleteKeyframe(id)
DoDragKeyframe == \E id \in StoreIds : \E timestamp \in StoreTimestamps : DragKeyframe(id, timestamp)
DoRenameKeyframe == \E id \in StoreIds : \E name \in TypedNames : RenameKeyframe(id, name)

StoreNext ==
    \/ DoAddKeyframe
    \/ DoDeleteKeyframe
    \/ DoDragKeyframe
    \/ DoRenameKeyframe
    \/ NormalizeTimestamps

StoreSpec == Init /\ [][StoreNext]_vars

----------------------------------------------------------------------------
(* The playing sequencer with its export: two keyframes played, sought and  *)
(* stopped, and generateFrames called between the steps.                    *)

\* the frame rates of an export of a few milliseconds
LiveFrameRates == {30, 1000}

\* two keyframes of different settings, the first of two milliseconds
LiveKeyframes ==
    << createKeyframe("k1", InitialSettings, "Keyframe 1", Num(0), 2),
       createKeyframe("k2", SettingsB, "Keyframe 2", Rat(1, 2), 0) >>

DoGenerateLiveFrames == \E fps \in LiveFrameRates : GenerateFrames(fps)

\* an engine that was given the two keyframes, in any loop mode
LiveInit ==
    /\ keyframes = sortKeyframes(LiveKeyframes)
    /\ totalDuration = calculateTotalDuration(keyframes)
    /\ currentTime = 0
    /\ isPlaying = FALSE
    /\ loopMode \in LoopModes
    /\ animationId = 0
    /\ startTime = 0
    /\ direction = 1
    /\ now = 0
    /\ pending = {}
    /\ out = Did("setKeyframes", NoUpdate)
    /\ frames = None
    /\ store = <<>>
    /\ exported = None
    /\ imported = None
    /\ AppInit

LiveNext ==
    \/ Play
    \/ Pause
    \/ Stop
    \/ DoSeekTo
    \/ DoTick
    \/ Advance
    \/ DoGenerateLiveFrames

LiveSpec == LiveInit /\ [][LiveNext]_vars

----------------------------------------------------------------------------
(* GifExporter.renderFrame and the grid effect of the App: the arguments    *)
(* each passes to generateGridPoints, as JavaScript values in call order.   *)

\* the arguments of the grid effect of the App
liveArguments(s) ==
    << Num(CanvasCenter), Num(CanvasCenter), Get(s, "gridStartRing"), Get(s, "gridEndRing"),
       Get(s, "symmetrySides"), Get(s, "chaos"), Get(s, "seed") >>

\* the arguments of GifExporter.renderFrame, the canvas size being that of the App
renderArguments(s) ==
    << Num(CanvasCenter), Num(CanvasCenter), Get(s, "ringCount"), Get(s, "symmetrySides"),
       Get(s, "chaos"), Get(s, "seed") >>

\* generateGridPoints called with the argument list args, of any length and of values
\* of any type: a parameter that has no argument is undefined; past the guard the
\* loop header reads connectionStartRing
generateGridPointsWith(args, previous) ==
    LET parameter(i) == IF i <= Len(args) THEN args[i] ELSE Undefined
        scope == [centerX |-> parameter(1), centerY |-> parameter(2),
                  startRing |-> parameter(3), endRing |-> parameter(4),
                  symmetrySides |-> parameter(5), chaos |-> parameter(6),
                  seed |-> parameter(7)]
    IN  IF Lt(scope.endRing, scope.startRing) \/ Lt(scope.symmetrySides, Num(3))
        THEN Returned(<<>>, previous)
        ELSE ThrownWith(Resolve("connectionStartRing", scope), previous)

\* GifExporter.renderFrame, up to the point list and the line list it draws
renderFrame(s, previous) ==
    LET points == generateGridPointsWith(renderArguments(s), previous)
    IN  IF Throws(points) THEN points
        ELSE LET art == generateArt(points.value, s, points.gen)
             IN  IF Throws(art) THEN art
                 ELSE [points |-> points.value, lines |-> art.value, gen |-> art.gen]

\* a frame of an export rendered from the settings
RenderFrame ==
    /\ generated' = [call |-> "renderFrame", settings |-> settings,
                     arguments |-> renderArguments(settings),
                     result |-> renderFrame(settings, lastGenerator)]
    /\ UNCHANGED <<engineVars, hostVars, out, frames, ioVars, appVars, uiVars, lookup, randomLoop>>

RenderNext == GenerateGridPoints \/ RenderFrame

RenderSpec == GridInit /\ [][RenderNext]_vars

----------------------------------------------------------------------------
(* Playback properties *)

\* the time since the engine's reference offset
Elapsed == now - startTime

\* C1: under pingpong, once a callback has met the forward overrun (position at the
\* end, direction reversed), the callback that runs x ms later (0 < x < totalDuration)
\* finds the position at totalDuration - x, still moving backward; half a duration
\* after the reversal it is 0.5 * totalDuration
C1_PingpongDescends ==
    [][(/\ isPlaying /\ loopMode = "pingpong" /\ direction = -1
        /\ out.op = "tick" /\ currentTime = totalDuration
        /\ 0 < Elapsed /\ Elapsed < totalDuration
        /\ DoTick)
       => (currentTime' = totalDuration - Elapsed /\ direction' = -1)]_vars

\* C2: the position lies in [0, totalDuration] in every state, and so does the
\* position every onUpdate call was interpolated at
C2_PositionInRange ==
    /\ 0 <= currentTime /\ currentTime <= totalDuration
    /\ Updated(out.update) =>
          /\ 0 <= out.update.time /\ out.update.time <= totalDuration
          /\ ~Throws(UpdateSettings(keyframes, out.update))

\* a callback that computed a position beyond the end emitted an update at the end
C2_Witness ==
    /\ out.op = "tick" /\ Updated(out.update)
    /\ totalDuration > 0 /\ Elapsed > totalDuration
    /\ currentTime = totalDuration

\* C3: a callback that runs while the engine is not playing (after pause or stop,
\* before the next play) changes neither position nor direction and makes no
\* onUpdate call
C3_CancelOnExit ==
    [][(~isPlaying /\ DoTick)
       => (/\ UNCHANGED <<currentTime, direction, isPlaying, startTime>>
           /\ ~Updated(out'.update))]_vars

\* a callback left queued ran after pause and did nothing
C3_Witness ==
    /\ out.op = "tick" /\ ~Updated(out.update)
    /\ ~isPlaying /\ Len(keyframes) > 0 /\ currentTime > 0

\* C4: play from a paused engine resumes at the paused position in the paused
\* direction: forward from inside the timeline, or backward under pingpong
C4_ResumeKeeps ==
    [][(/\ ~isPlaying /\ Len(keyframes) > 0
        /\ \/ direction = 1 /\ currentTime < totalDuration
           \/ direction = -1 /\ loopMode = "pingpong" /\ currentTime > 0
        /\ Play)
       => (currentTime' = currentTime /\ direction' = direction)]_vars

C6_StopResets ==
    [][Stop => (/\ ~isPlaying' /\ currentTime' = 0 /\ direction' = 1
                /\ animationId' = 0 /\ pending' = {})]_vars

----------------------------------------------------------------------------
(* Interpolation and frame properties *)

\* a and b agree in every property of the Settings interface
SameSettings(a, b) == \A f \in SettingsFields : Get(a, f) = Get(b, f)

\* C7: for consecutive keyframes (from, to) with from.duration > 0, the settings
\* interpolated at the start of the interval are from.settings and those at its end
\* are to.settings, in every property of Settings
C7_InterpolationEndpoints ==
    \A i \in 1..(Len(keyframes) - 1) :
        keyframes[i].duration.n > 0 =>
            /\ SameSettings(interpolateSettings(keyframes, Num(StartOfIndex(keyframes, i))),
                            keyframes[i].settings)
            /\ SameSettings(interpolateSettings(keyframes,
                                Num(StartOfIndex(keyframes, i) + keyframes[i].duration.n)),
                            keyframes[i + 1].settings)

\* the frame count of the claim: the least integer not below total / 1000 * fps
CeilFrames(total, fps) == (total * fps + 999) \div 1000

\* C8: for a total duration T > 0 and a frame rate F > 0 generateFrames returns
\* ceil(T / 1000 * F) + 1 snapshots, snapshot i (from 0) interpolated at time
\* i * T / frameCount: the first at time 0, the last at time T
C8_FrameEnumeration ==
    (frames # None /\ totalDuration > 0) =>
        LET n == CeilFrames(totalDuration, frames.fps)
        IN  /\ ~Throws(frames.result)
            /\ Len(frames.result.resolved) = n + 1
            /\ \A i \in 0..n :
                  frames.result.resolved[i + 1] =
                      interpolateSettings(keyframes, Rat(i * totalDuration, n))
            /\ frames.result.resolved[1] = interpolateSettings(keyframes, Num(0))
            /\ frames.result.resolved[n + 1] =
                  interpolateSettings(keyframes, Num(totalDuration))

\* two seconds at 30 frames per second were exported: 61 snapshots
C8_Witness ==
    /\ frames # None /\ frames.fps = 30 /\ totalDuration = 2000
    /\ Len(keyframes) = 2
    /\ Len(frames.result.resolved) = 61

----------------------------------------------------------------------------
(* Export and import properties *)

\* every entry has a string id, a string name, a finite numeric timestamp, a
\* settings object and a finite numeric duration
WellFormed(ks) ==
    \A i \in 1..Len(ks) :
        /\ ~IsPrim(ks[i])
        /\ Get(ks[i], "id").k = "string"
        /\ Get(ks[i], "name").k = "string"
        /\ Get(ks[i], "timestamp").k = "number"
        /\ ~IsPrim(Get(ks[i], "settings"))
        /\ Get(ks[i], "duration").k = "number"

\* C9: for a well-formed keyframe list, importing what exportKeyframes wrote gives
\* the list back: same length, same order, same values in every entry
C9_RoundTrip ==
    [][(/\ WellFormed(store)
        /\ exported = exportKeyframes(store)
        /\ LoadSaved)
       => (/\ ~Throws(imported'.result)
           /\ imported'.result.keyframes = store
           /\ store' = store)]_vars

\* C10: the import of a file that holds an array never fails as a whole
C10_ArrayNeverFails ==
    (imported # None /\ "json" \in DOMAIN imported.file /\ IsArray(imported.file.json))
        => ~Throws(imported.result)

----------------------------------------------------------------------------
(* Lookup properties *)

\* the timestamp looked up is below (dir = -1) or above (dir = 1) every timestamp of ks
Outside(ks, timestamp, dir) ==
    \A i \in 1..Len(ks) :
        IF dir < 0 THEN Lt(timestamp, ks[i].timestamp) ELSE Lt(ks[i].timestamp, timestamp)

\* C11: for a non-empty collection the pair looked up has no null member: (k, k) for a
\* singleton, (first, first) below every timestamp, (last, last) above every
\* timestamp, else two keyframes adjacent in ascending timestamp order that
\* bracket the timestamp looked up
C11_PairLookup ==
    (lookup # None /\ Len(store) > 0) =>
        LET pair == lookup.result
            t == lookup.timestamp
            sorted == sortKeyframes(store)
        IN  /\ pair[1] # Null /\ pair[2] # Null
            /\ Len(store) = 1 => pair = <<store[1], store[1]>>
            /\ Outside(store, t, -1) => pair = <<sorted[1], sorted[1]>>
            /\ Outside(store, t, 1) => pair = <<sorted[Len(sorted)], sorted[Len(sorted)]>>
            /\ (Len(store) > 1 /\ ~Outside(store, t, -1) /\ ~Outside(store, t, 1)) =>
                  \E i \in 1..(Len(sorted) - 1) :
                      /\ pair = <<sorted[i], sorted[i + 1]>>
                      /\ Le(pair[1].timestamp, t) /\ Le(t, pair[2].timestamp)

\* keyframes at 0, 1/2 and 1, stored out of order, looked up at 3/10
C11_Witness ==
    /\ lookup # None /\ lookup.timestamp = Rat(3, 10)
    /\ Len(store) = 3 /\ store[1].timestamp = Num(1) /\ store[3].timestamp = Num(0)
    /\ lookup.result[1].timestamp = Num(0)
    /\ lookup.result[2].timestamp = Rat(1, 2)

----------------------------------------------------------------------------
(* Grid properties *)

\* the last call was one of generateGridPoints
GridCalled == generated # None /\ generated.call = "generateGridPoints"

\* the number of entries of points that are of the given ring
CountOfRing(points, ring) == Cardinality({i \in 1..Len(points) : points[i].ring = ring})

\* C12: with at least 3 sides and a grid range a..b, a <= b, generateGridPoints returns
\* points of the rings a..b only, one of ring 0 and r * sides of each ring r > 0 in
\* the range: 1 + sides * b * (b + 1) / 2 points for the range 0..b
C12_RingCardinality ==
    LET s == generated.settings
        a == s.gridStartRing.n
        b == s.gridEndRing.n
        sides == s.symmetrySides.n
    IN  (GridCalled /\ sides >= 3 /\ a <= b) =>
            /\ ~Throws(generated.result)
            /\ LET points == generated.result.value
               IN  /\ \A i \in 1..Len(points) : a <= points[i].ring /\ points[i].ring <= b
                   /\ \A r \in a..b :
                          CountOfRing(points, r) = IF r = 0 THEN 1 ELSE r * sides
                   /\ a = 0 => Len(points) = 1 + ((sides * b * (b + 1)) \div 2)

\* C13: generateGridPoints never throws, and returns no point with fewer than 3
\* sides or an end ring below the start ring
C13_GridNeverRaises ==
    GridCalled =>
        /\ ~Throws(generated.result)
        /\ (generated.settings.symmetrySides.n < 3
               \/ generated.settings.gridEndRing.n < generated.settings.gridStartRing.n)
              => generated.result.value = <<>>


----------------------------------------------------------------------------
(* Line properties *)

\* the last call was one of generateArt with the given strategy
ArtCalled(strategy) ==
    /\ generated # None
    /\ generated.call = "generateArt"
    /\ generated.settings.strategy = Str(strategy)

\* the ring of the point with the given id
RingOfId(points, id) == points[CHOOSE i \in 1..Len(points) : points[i].id = id].ring

\* the lines that join two points of the ring, in the order they were pushed
LinesWithin(points, pushed, ring) ==
    SelectSeq(pushed, LAMBDA l : RingOfId(points, l[1]) = ring /\ RingOfId(points, l[2]) = ring)

\* the lines from a point of the ring to one of the next ring, in the order pushed
LinesOutward(points, pushed, ring) ==
    SelectSeq(pushed, LAMBDA l : RingOfId(points, l[1]) = ring
                                    /\ RingOfId(points, l[2]) = ring + 1)

\* C15: the Web strategy with tangentialStep k > 0 pushes, for every ring of the
\* connection range with more than one point, one tangential line per point, the i-th
\* from the point at index i to the point at index (i + k) mod ringSize of that ring;
\* with k = 0 or a ring of one point it pushes no tangential line for the ring
C15_TangentialEdges ==
    ArtCalled("Web") =>
        LET s == generated.settings
            k == s.tangentialStep.n
        IN  /\ ~Throws(generated.result)
            /\ \A r \in s.connectionStartRing.n .. s.connectionEndRing.n :
                   LET ringOf == SelectSeq(gridPoints, LAMBDA p : p.ring = r)
                       size == Len(ringOf)
                       within == LinesWithin(gridPoints, generated.result.value, r)
                   IN  IF k > 0 /\ size > 1
                       THEN /\ Len(within) = size
                            /\ \A i \in 0..(size - 1) :
                                   within[i + 1] = <<ringOf[i + 1].id,
                                                     ringOf[((i + k) % size) + 1].id>>
                       ELSE within = <<>>

\* a Web call with step 2 over ring 1 of six points, whose third tangential line
\* joins the points at the indices 2 and 4 of the ring
C15_Witness ==
    /\ ArtCalled("Web")
    /\ generated.settings.tangentialStep = Num(2)
    /\ generated.settings.symmetrySides = Num(6)
    /\ generated.settings.connectionStartRing = Num(1)
    /\ generated.settings.connectionEndRing = Num(1)
    /\ generated.result.value = << <<1, 3>>, <<2, 4>>, <<3, 5>>, <<4, 6>>, <<5, 1>>, <<6, 2>> >>

\* the index a radial line goes to: round(i * nextSize / currSize + radialTwist *
\* symmetrySides / 10) wrapped into 0..nextSize - 1
WrappedTarget(i, currSize, nextSize, s) ==
    MathRound(Add(Rat(i * nextSize, currSize),
                  Div(Mul(s.radialTwist, s.symmetrySides), Num(10)))).n % nextSize

\* C20: the Web and the Spokes strategy push, for every ring r with connectionStartRing
\* <= r < connectionEndRing whose next ring has points, one radial line per point of
\* ring r, from the point at index i to the point of ring r + 1 at the wrapped index,
\* for every radialTwist, negative ones included
C20_RadialEdges ==
    (ArtCalled("Web") \/ ArtCalled("Spokes")) =>
        LET s == generated.settings
        IN  /\ ~Throws(generated.result)
            /\ \A r \in s.connectionStartRing.n .. (s.connectionEndRing.n - 1) :
                   LET curr == SelectSeq(gridPoints, LAMBDA p : p.ring = r)
                       next == SelectSeq(gridPoints, LAMBDA p : p.ring = r + 1)
                       outward == LinesOutward(gridPoints, generated.result.value, r)
                   IN  Len(next) > 0 =>
                           /\ Len(outward) = Len(curr)
                           /\ \A i \in 0..(Len(curr) - 1) :
                                  outward[i + 1] =
                                      <<curr[i + 1].id,
                                        next[WrappedTarget(i, Len(curr), Len(next), s) + 1].id>>


----------------------------------------------------------------------------
(* Random strategy properties *)

\* the number of lines that have the point of the given id as an end
Degree(pushed, id) ==
    Cardinality({i \in 1..Len(pushed) : pushed[i][1] = id})
        + Cardinality({i \in 1..Len(pushed) : pushed[i][2] = id})

\* C14: whatever the draws, after each of the at most 2 * activePointCount rounds of
\* the Random strategy no point is an end of more than maxConnections lines, no line
\* joins a point to itself, and a round adds at most one line, so that there are at
\* most min(2 * activePointCount, floor(activePointCount * maxConnections / 2)) lines
C14_DegreeCap ==
    LET activePoints == activePointsOf(gridPoints, settings)
        count == Len(activePoints)
        maxConnections == settings.maxConnections.n
        half == (count * maxConnections) \div 2
    IN  /\ randomLoop.attempts <= 2 * count
        /\ Len(randomLoop.lines) <= randomLoop.attempts
        /\ \A i \in 1..count :
               Degree(randomLoop.lines, activePoints[i].id) <= maxConnections
        /\ \A i \in 1..Len(randomLoop.lines) :
               randomLoop.lines[i][1] # randomLoop.lines[i][2]
        /\ Len(randomLoop.lines) <= (IF 2 * count < half THEN 2 * count ELSE half)

\* the loop has made all its rounds over four points with maxConnections 2, some
\* rounds were rejected, and a point is an end of two lines
C14_Witness ==
    LET activePoints == activePointsOf(gridPoints, settings)
    IN  /\ Len(activePoints) = 4
        /\ settings.maxConnections = Num(2)
        /\ randomLoop.attempts = 8
        /\ Len(randomLoop.lines) = 4
        /\ \E i \in 1..4 : Degree(randomLoop.lines, activePoints[i].id) = 2


----------------------------------------------------------------------------
(* Determinism *)

\* the generators earlier calls may have left: none, a fresh one, used ones
Histories == {Word(0, 0), Stepped(Word(0, 12), 3), Stepped(Word(0, 7), 40)}

\* what a call gave its caller: the value returned or the error thrown
Outcome(result) ==
    IF Throws(result) THEN [error |-> result.error] ELSE [value |-> result.value]

\* the last call made again on the same arguments after the generator previous
Again(previous) ==
    IF generated.call = "generateArt"
    THEN generateArt(gridPoints, generated.settings, previous)
    ELSE gridPointsOf(generated.settings, previous)

\* C16: a call of generateGridPoints or of generateArt, whatever the strategy, gives
\* for the same seed and settings the same outcome whatever calls were made before
\* it: its draws start from the seed
C16_Deterministic ==
    generated # None =>
        \A previous \in Histories : Outcome(Again(previous)) = Outcome(generated.result)

\* a call of the Swirl strategy that took draws of its generator and pushed lines
C16_Witness ==
    /\ ArtCalled("Swirl")
    /\ generated.result.gen # Word(0, generated.settings.seed.n)
    /\ Len(generated.result.value) > 3

----------------------------------------------------------------------------
(* Export dialog properties *)

\* C17: at most one export is running at any time, whatever the user does with the
\* export button and the dialog: a request made while one runs starts no second one
C17_SingleExport == Len(exporting) <= 1

----------------------------------------------------------------------------
(* Empty keyframe list *)

\* the operations of the update path
UpdatePath == {"play", "pause", "stop", "seekTo", "tick"}

\* C18: with an empty keyframe list play, pause, stop, seekTo and the tick neither
\* throw nor call onUpdate, and after play the sequencer is not playing; a call of
\* generateFrames made with the empty list is rejected with an error
C18_EmptyList ==
    /\ [](Len(keyframes) = 0 /\ out.op \in UpdatePath =>
              /\ ~Throws(out.update)
              /\ ~Updated(out.update)
              /\ out.op = "play" => ~isPlaying)
    /\ [][Len(keyframes) = 0 /\ frames' # frames => Throws(frames'.result)]_vars

----------------------------------------------------------------------------
(* Settings properties *)

\* C19: after every change of a control, the effects having run, the grid range and
\* the connection range are in order and the connection range lies in the grid range
C19_RangesInOrder ==
    /\ settings.gridStartRing.n <= settings.gridEndRing.n
    /\ settings.connectionStartRing.n <= settings.connectionEndRing.n
    /\ settings.gridStartRing.n <= settings.connectionStartRing.n
    /\ settings.connectionEndRing.n <= settings.gridEndRing.n

----------------------------------------------------------------------------
(* Cluster properties *)

\* the point of the list with the given id
PointOfId(points, id) == points[CHOOSE i \in 1..Len(points) : points[i].id = id]

\* C21: every line [p, c] of the Clusters strategy has c a drawn center other than p,
\* as close to p as any drawn center other than p and the first such in draw order,
\* and no active point starts more than one line
C21_NearestCenter ==
    (ArtCalled("Clusters") /\ ~Throws(generated.result)) =>
        LET s == generated.settings
            active == activePointsOf(gridPoints, s)
            centers == clusterCenters(active, s.clusterCount.n, mulberry32(s.seed.n, Word(0, 0)))
            pushed == generated.result.value
        IN  /\ \A j \in 1..Len(pushed) :
                   LET p == PointOfId(gridPoints, pushed[j][1])
                   IN  \E k \in 1..Len(centers) :
                           /\ centers[k].id = pushed[j][2]
                           /\ centers[k].id # p.id
                           /\ \A m \in 1..Len(centers) :
                                  centers[m].id # p.id =>
                                      /\ distanceSquared(p, centers[k])
                                             <= distanceSquared(p, centers[m])
                                      /\ m < k => distanceSquared(p, centers[k])
                                                      < distanceSquared(p, centers[m])
            /\ \A i \in 1..Len(active) :
                   Cardinality({j \in 1..Len(pushed) : pushed[j][1] = active[i].id}) <= 1

----------------------------------------------------------------------------
(* Loop, seek and scheduling properties *)

\* C22: under loop mode loop a forward callback whose computed position reaches or
\* passes the end puts the position at 0, leaves the engine playing forward with a
\* callback queued and the reference offset at the time of that callback; and an
\* engine playing under loop mode loop stops playing only by pause or stop
C22_LoopWraps ==
    /\ [][(/\ isPlaying /\ loopMode = "loop" /\ direction = 1
           /\ Elapsed >= totalDuration
           /\ DoTick)
          => (/\ currentTime' = 0 /\ isPlaying' /\ direction' = 1
              /\ startTime' = now
              /\ animationId' \in pending')]_vars
    /\ [][(isPlaying /\ loopMode = "loop" /\ ~isPlaying') => (Pause \/ Stop)]_vars

\* the position seekTo is to set for the time it is given
SoughtPosition(time, total) == IF time < 0 THEN 0 ELSE IF time > total THEN total ELSE time

\* C23: seekTo(time) puts the position at time clamped into [0, totalDuration],
\* changes neither play state, direction, loop mode nor keyframes, and with keyframes
\* makes one onUpdate call, with the settings interpolated at the new position
C23_SeekClamps ==
    [][\A time \in SeekTimes :
          SeekTo(time) =>
              /\ currentTime' = SoughtPosition(time, totalDuration)
              /\ UNCHANGED <<isPlaying, direction, loopMode, keyframes>>
              /\ Len(keyframes) > 0 =>
                     /\ Updated(out'.update)
                     /\ out'.update.time = currentTime'
                     /\ ~Throws(UpdateSettings(keyframes, out'.update))
              /\ Len(keyframes) = 0 => ~Updated(out'.update)]_vars

\* a seek beyond the end of a playing engine put the position at the end and made
\* an onUpdate call there
C23_Witness ==
    /\ out.op = "seekTo" /\ Updated(out.update)
    /\ isPlaying /\ totalDuration > 0
    /\ currentTime = totalDuration /\ out.update.time = totalDuration

\* C24: after seekTo on a playing engine, the next callback finds the position at
\* the sought position advanced, in the current direction, by the time since the
\* seek, as long as that lies inside the timeline
C24_SeekRetained ==
    [][(/\ isPlaying /\ out.op = "seekTo" /\ Len(keyframes) > 0
        /\ 0 < currentTime + (direction * (now - out.at))
        /\ currentTime + (direction * (now - out.at)) < totalDuration
        /\ DoTick)
       => currentTime' = currentTime + (direction * (now - out.at))]_vars

\* C28: at most one callback is queued with the host at any time
C28_SingleFlight == Cardinality(pending) <= 1

\* C29: the direction is backward only under loop mode pingpong, and no callback
\* meets the backward underrun under another loop mode
C29_BackwardOnlyPingpong ==
    /\ [](direction = -1 => loopMode = "pingpong")
    /\ [][(/\ isPlaying /\ direction = -1
           /\ elapsedPosition(now, startTime, direction, totalDuration) <= 0
           /\ DoTick)
          => loopMode = "pingpong"]_vars

----------------------------------------------------------------------------
(* Strategy switch *)

\* the time of frame i (from 1) of the frames generated last
FrameTime(i) == Rat((i - 1) * totalDuration, CeilFrames(totalDuration, frames.fps))

\* time lies in the interval of keyframe j and in that of no keyframe before it
Within(ks, j, time) ==
    /\ Le(Num(StartOfIndex(ks, j)), time)
    /\ Le(time, Num(StartOfIndex(ks, j) + ks[j].duration.n))

FirstWithin(ks, j, time) == Within(ks, j, time) /\ \A g \in 1..(j - 1) : ~Within(ks, g, time)

\* twice the local time of keyframe j at time: below the duration exactly when the
\* local progress is below 1/2
TwiceLocal(ks, j, time) == Mul(Num(2), Sub(time, Num(StartOfIndex(ks, j))))

\* C25: a frame whose time lies in the interval from keyframe j to the next keyframe
\* has the strategy of keyframe j when the local progress is below 1/2, that of the
\* next keyframe when it is 1/2 or more, and never a third strategy
C25_StrategySwitch ==
    (frames # None /\ totalDuration > 0 /\ ~Throws(frames.result)) =>
        \A i \in 1..Len(frames.result.resolved) :
            \A j \in 1..(Len(keyframes) - 1) :
                FirstWithin(keyframes, j, FrameTime(i)) =>
                    LET strategy == Get(frames.result.resolved[i], "strategy")
                        from == keyframes[j]
                        to == keyframes[j + 1]
                        twice == TwiceLocal(keyframes, j, FrameTime(i))
                    IN  /\ strategy \in {from.settings.strategy, to.settings.strategy}
                        /\ (from.duration.n > 0 /\ Lt(twice, from.duration)) =>
                              strategy = from.settings.strategy
                        /\ (from.duration.n > 0 /\ Le(from.duration, twice)) =>
                              strategy = to.settings.strategy

\* a frame exactly half way from a keyframe to one of another strategy, and a frame
\* before the half of such an interval
C25_Witness ==
    /\ frames # None /\ totalDuration > 0 /\ ~Throws(frames.result)
    /\ \E i \in 1..Len(frames.result.resolved) : \E j \in 1..(Len(keyframes) - 1) :
          /\ FirstWithin(keyframes, j, FrameTime(i))
          /\ keyframes[j].settings.strategy # keyframes[j + 1].settings.strategy
          /\ TwiceLocal(keyframes, j, FrameTime(i)) = keyframes[j].duration
          /\ keyframes[j].duration.n > 0
          /\ Get(frames.result.resolved[i], "strategy") = keyframes[j + 1].settings.strategy
    /\ \E i \in 1..Len(frames.result.resolved) : \E j \in 1..(Len(keyframes) - 1) :
          /\ FirstWithin(keyframes, j, FrameTime(i))
          /\ keyframes[j].settings.strategy # keyframes[j + 1].settings.strategy
          /\ Lt(Num(0), TwiceLocal(keyframes, j, FrameTime(i)))
          /\ Lt(TwiceLocal(keyframes, j, FrameTime(i)), keyframes[j].duration)
          /\ Get(frames.result.resolved[i], "strategy") = keyframes[j].settings.strategy

----------------------------------------------------------------------------
(* Keyframe collection properties *)

\* ascending by timestamp
Ascending(ks) == \A i \in 1..(Len(ks) - 1) : Le(ks[i].timestamp, ks[i + 1].timestamp)

\* the place of the keyframe of the id in ks
PlaceOf(ks, id) == CHOOSE i \in 1..Len(ks) : ks[i].id = id

\* C26: from the empty collection, after any inserts, removals, updates (those of a
\* timestamp included) and normalizations the collection is ascending by timestamp,
\* and an insert keeps the order of the keyframes of equal timestamp and puts the
\* new keyframe behind those of its timestamp
C26_StoreOrdered ==
    /\ [](Ascending(store))
    /\ [][DoAddKeyframe =>
            /\ \A i, j \in 1..Len(store) :
                  (i < j /\ store[i].timestamp = store[j].timestamp) =>
                      PlaceOf(store', store[i].id) < PlaceOf(store', store[j].id)
            /\ \A i \in 1..Len(store) : \A n \in 1..Len(store') :
                  (/\ \A k \in 1..Len(store) : store[k].id # store'[n].id
                   /\ store[i].timestamp = store'[n].timestamp) =>
                      PlaceOf(store', store[i].id) < n]_vars

----------------------------------------------------------------------------
(* Export and playback *)

\* the frames of the keyframes ks at the rate fps, from the keyframes alone
FramesFor(ks, fps) ==
    LET total == calculateTotalDuration(ks)
        n == CeilFrames(total, fps)
    IN  [resolved |-> [i \in 1..(n + 1) |-> interpolateSettings(ks, Rat((i - 1) * total, n))]]

\* C27: a call of generateFrames leaves the position, the play state, the direction,
\* the reference time and the queued callbacks as they are, and what it returns is
\* fixed by the keyframes and the frame rate, whatever the state of the playback
C27_FramesApart ==
    [][\A fps \in LiveFrameRates : (frames' # frames /\ GenerateFrames(fps)) =>
          /\ UNCHANGED <<currentTime, isPlaying, direction, startTime, animationId,
                         pending, loopMode, keyframes, totalDuration, out>>
          /\ (Len(keyframes) > 0 /\ calculateTotalDuration(keyframes) > 0) =>
                frames'.result = FramesFor(keyframes, fps)]_vars

\* frames generated in the middle of a backward run: three frames, the middle one
\* between the two keyframes
C27_Witness ==
    /\ frames # None /\ frames.fps = 1000
    /\ isPlaying /\ direction = -1 /\ currentTime = 1 /\ pending # {}
    /\ Len(frames.result.resolved) = 3
    /\ frames.result.resolved[2] = interpolateSettings(keyframes, Num(1))
    /\ frames.result.resolved[2] # frames.result.resolved[1]
    /\ frames.result.resolved[2] # frames.result.resolved[3]

----------------------------------------------------------------------------
(* Export and live view *)

\* C30: a frame rendered for an export passes generateGridPoints the arguments the
\* grid effect of the App passes for the same settings (centre, grid start ring,
\* grid end ring, sides, chaos, seed), and its point list and line list are those
\* the App computes for these settings
C30_ExportMatchesLive ==
    (generated # None /\ generated.call = "renderFrame") =>
        LET s == generated.settings
            live == gridPointsOf(s, Word(0, 0))
        IN  /\ generated.arguments = liveArguments(s)
            /\ ~Throws(generated.result)
            /\ ~Throws(live)
            /\ generated.result.points = live.value
            /\ generated.result.lines = generateArt(live.value, s, Word(0, 0)).value

====
